---- MODULE Spec2Model ----
(***************************************************************************)
(* BWAIShotgun: the match orchestrator of src/main.rs (launch loop, the     *)
(* readiness and connection waits, the supervision loop) together with the *)
(* shared game table reader of game_table/src/game_table.rs and            *)
(* src/bwapi.rs.                                                           *)
(***************************************************************************)
EXTENDS Integers, Sequences, FiniteSets, TLC

(***************************************************************************)
(* Bounds of the model.                                                    *)
(***************************************************************************)
\* largest number of bots in one match
MaxBots == 2

\* largest number of entries in a bot's bwapi-data/AI folder
MaxEntries == 3
\* largest number of occupied slots of the shared region a reader is run against
MaxOccupied == 1
MaxDelta == 1

(***************************************************************************)
(* Program constants.                                                      *)
(***************************************************************************)
\* GameTable.game_instances: [GameInstance; 8]
NumSlots == 8
\* retry(Fixed::from_millis(100).take(100), ..): number of delays a wait owns
RetryTake == 100
\* process id found in the table that belongs to no engine of this match
StalePid == 9

None == "None"

\* get_game_table returned None: no table could be read
Unavailable == << >>

BinaryKinds == {"Dll", "Jar", "Exe"}

(***************************************************************************)
(* The shared game table (game_table.rs).                                  *)
(***************************************************************************)
GameInstance(pid, connected) ==
    [server_process_id |-> pid, is_connected |-> connected, last_keep_alive_time |-> 0]

EmptyInstance == GameInstance(0, FALSE)

\* the tables a poll made while the engine with process id p is the newest one
\* may read: slot 1 is empty or owned by p, slot 8 is empty or owned by a
\* process that is not part of this match, each connected or not
GameTables(p) ==
    { [s \in 1..NumSlots |-> IF s = 1 THEN a ELSE IF s = NumSlots THEN b ELSE EmptyInstance] :
        a \in {EmptyInstance, GameInstance(p, FALSE), GameInstance(p, TRUE)},
        b \in {EmptyInstance, GameInstance(StalePid, FALSE), GameInstance(StalePid, TRUE)} }

\* a reader that never gets a handle
AttachNever(handle, exists) == handle

\* a reader that gives its handle up at the call after the one that got it
AttachOnce(handle, exists) == ~handle /\ exists

\* game_table::GameTableAccess::get_game_table, the attachment part: a reader
\* without a handle tries to open the region, a reader with a handle keeps it
Attach(handle, exists) == handle \/ exists

\* a reader that opens the region at every call
OpensAlways(win, handle) == TRUE

\* whether a call opens the region: the delegate only without a handle
\* (if self.game_table.is_none()), game_table.exe at every run
Opens(win, handle) == IF win THEN ~handle ELSE TRUE

\* the shared region does not exist
Absent == << >>

\* *(shmem.as_ptr() as *const GameTable): a plain copy of the 96 bytes of a
\* region that another process goes on writing, with no lock between them.
\* held are the tables the region holds while the copy is taken, from the one
\* at the start of the call to the one at its end: every field of a slot is
\* copied as one of them has it, one field independently of the other
Copies(held) ==
    LET first == CHOOSE t \in held : TRUE
        D == { s \in 1..NumSlots : \E t \in held : t[s] # first[s] }
        values(s) == { GameInstance(a[s].server_process_id, b[s].is_connected) :
                            a \in held, b \in held }
        fields == { f \in [D -> UNION { values(s) : s \in D }] :
                        \A s \in D : f[s] \in values(s) }
    IN  { [s \in 1..NumSlots |-> IF s \in D THEN f[s] ELSE first[s]] : f \in fields }

\* bwapi::GameTableAccess::get_game_table called while the region is in
\* state region (Absent, or the table it holds) and holds the tables of held
\* during the call (region and what is stored then): the outcomes of the call, as the handle afterwards, the
\* value returned, whether the call opened the region, and whether it
\* panicked instead of returning.  On windows the delegate opens the region
\* only when it has no handle and copies it through the handle; elsewhere
\* every call runs game_table.exe under wine, which opens the region afresh,
\* copies it in the same way and prints the copy, and the call panics when
\* game_table.exe is missing or wine cannot be executed.
ReadRegion(win, handle, region, held) ==
    LET exists == region # Absent
        attached == IF win THEN Attach(handle, exists) ELSE FALSE
        readable == IF win THEN attached ELSE exists
        opens == Opens(win, handle)
    IN  (IF readable
         THEN { [game_table |-> attached, table |-> t, opened |-> opens, panic |-> FALSE] :
                    t \in Copies(held) }
         ELSE { [game_table |-> attached, table |-> Unavailable, opened |-> opens,
                 panic |-> FALSE] })
        \cup IF win THEN {}
             ELSE {[game_table |-> FALSE, table |-> Unavailable, opened |-> FALSE,
                    panic |-> TRUE]}

\* the states the region can be in at a call of main: a handle the reader
\* holds keeps the region in existence
Regions(handle, p) == GameTables(p) \cup IF handle THEN {} ELSE {Absent}

\* bwapi::GameTableAccess::get_game_table as main calls it, the region in
\* any of the states it can have and, when it exists, going through any of
\* them during the call
GameTableCalls ==
    [win \in BOOLEAN, handle \in BOOLEAN, p \in (1..MaxBots) \cup {StalePid} |->
        UNION { ReadRegion(win, handle, region,
                           IF region = Absent THEN { Absent } ELSE GameTables(p)) :
                region \in Regions(win /\ handle, p) }]

get_game_table(win, handle, p) == GameTableCalls[win, handle, p]

AnyFreeSlot(table) ==
    \E s \in 1..NumSlots :
        table[s].server_process_id # 0 /\ ~table[s].is_connected

\* any for all: one connected slot is enough
all_slots_filled_any(table) ==
    IF table = Unavailable THEN FALSE
    ELSE \E s \in 1..NumSlots :
            table[s].server_process_id # 0 /\ table[s].is_connected

\* never true of a table without an owned slot
all_slots_filled_nonempty(table) ==
    IF table = Unavailable THEN FALSE
    ELSE /\ ~AnyFreeSlot(table)
         /\ \E s \in 1..NumSlots : table[s].server_process_id # 0

\* bwapi::GameTableAccess::all_slots_filled on the value get_game_table returned
all_slots_filled(table) ==
    IF table = Unavailable THEN FALSE ELSE ~AnyFreeSlot(table)

\* unwrap_or(true): no table counts as a free slot
has_free_slot_or_none(table) ==
    IF table = Unavailable THEN TRUE ELSE AnyFreeSlot(table)

\* any slot with an owner counts, connected or not
has_free_slot_occupied(table) ==
    IF table = Unavailable THEN FALSE
    ELSE \E s \in 1..NumSlots : table[s].server_process_id # 0

\* looks at the first slot only
has_free_slot_first(table) ==
    IF table = Unavailable THEN FALSE
    ELSE table[1].server_process_id # 0 /\ ~table[1].is_connected

\* bwapi::GameTableAccess::has_free_slot on the value get_game_table returned
has_free_slot(table) ==
    IF table = Unavailable THEN FALSE ELSE AnyFreeSlot(table)

\* what a poll of a wait sees of the call r of get_game_table it makes: the
\* handle afterwards, whether the call panicked, whether it returned no
\* table, and what has_free_slot and all_slots_filled make of the value
Seen(r) ==
    [game_table |-> r.game_table, panic |-> r.panic,
     unavailable |-> r.table = Unavailable,
     free |-> has_free_slot(r.table), filled |-> all_slots_filled(r.table)]

\* what the polls of main can see, by the build, the handle and the newest
\* engine
PollsSeen ==
    [win \in BOOLEAN, handle \in BOOLEAN, p \in (1..MaxBots) \cup {StalePid} |->
        { Seen(r) : r \in get_game_table(win, handle, p) }]

\* the calls a poll that saw v can have made
CallsSeenAs(win, handle, p, v) == { r \in get_game_table(win, handle, p) : Seen(r) = v }

(***************************************************************************)
(* Bots and their launch order.                                            *)
(***************************************************************************)
\* PreparedBot: name stands for the position in the configuration.  The
\* headful field is read by the launch of the bot only and is drawn there.
PreparedBots(n) ==
    [1..n -> [name : 1..MaxBots, binary : BinaryKinds]]

\* a sort key that orders nothing
SortKeyConstant(bot) == 0

\* the key of prepared_bots.sort_by_key
SortKey(bot) == IF bot.binary = "Dll" THEN 1 ELSE 0

\* Vec::sort_by_key: a stable sort by ascending key
RECURSIVE InsertByKey(_, _)
InsertByKey(sorted, bot) ==
    IF sorted = << >> THEN << bot >>
    ELSE IF SortKey(sorted[Len(sorted)]) <= SortKey(bot)
         THEN Append(sorted, bot)
         ELSE Append(InsertByKey(SubSeq(sorted, 1, Len(sorted) - 1), bot), sorted[Len(sorted)])

RECURSIVE sort_by_key(_)
sort_by_key(bots) ==
    IF bots = << >> THEN << >>
    ELSE InsertByKey(sort_by_key(SubSeq(bots, 1, Len(bots) - 1)), bots[Len(bots)])

\* an instance is recorded twice
push_twice(v, x) == Append(Append(v, x), x)

\* instances.push(BotProcess { .. }), main, lines 595-598
push(v, x) == Append(v, x)

\* every bot gets a process of its own
bot_process_always(binary) == "Some"

\* main, lines 550-559: the command of the bot's own process, None for a bot
\* that runs inside the engine
bot_process(binary) == IF binary = "Dll" THEN None ELSE "Some"

\* connect_mode of the launcher built for one bot
ConnectMode(hostFlag) == IF hostFlag THEN "Host" ELSE "Join"

\* a player count that does not follow the number of bots
player_count_one(bots) == 1

\* let player_count = bots.len()
player_count(bots) == Len(bots)

\* what the launch of an engine carries besides its mode: a host launch the
\* map (bwheadless -m, bwapi.ini map=; map says whether one is configured)
\* and the player count (bwheadless -h, wait_for_min_players), a join
\* launch neither
HostArgs(mode, map, count) ==
    IF mode = "Host" THEN [map |-> map, player_count |-> count]
    ELSE [map |-> FALSE, player_count |-> 0]

(***************************************************************************)
(* The bot binary (botsetup.rs, PreparedBot::prepare).                     *)
(***************************************************************************)
\* file extensions, as the characters after the last dot of a file name;
\* NoExt: Path::extension is None
NoExt == << >>
ExtList == << <<"d", "l", "l">>, <<"D", "L", "L">>, <<"j", "a", "r">>, <<"e", "x", "e">>,
             <<"E", "x", "e">>, <<"t", "x", "t">>, NoExt >>
Exts == {ExtList[n] : n \in DOMAIN ExtList}

UpperCase == <<"A", "D", "E", "J", "L", "R", "T", "X">>
LowerCase == <<"a", "d", "e", "j", "l", "r", "t", "x">>

\* an extension taken as it is written
keep_case(ext) == ext

\* String::make_ascii_lowercase
make_ascii_lowercase(ext) ==
    [k \in DOMAIN ext |->
        IF \E n \in DOMAIN UpperCase : UpperCase[n] = ext[k]
        THEN LowerCase[CHOOSE n \in DOMAIN UpperCase : UpperCase[n] = ext[k]]
        ELSE ext[k]]

\* Option<Binary>: None, or the kind with the file it wraps
NoBinary == [kind |-> "None", file |-> 0]

\* every extension that is neither dll nor jar counts as exe
from_path_any(file, ext) ==
    LET lower == make_ascii_lowercase(ext)
    IN  IF ext = NoExt THEN NoBinary
        ELSE IF lower = <<"d", "l", "l">> THEN [kind |-> "Dll", file |-> file]
        ELSE IF lower = <<"j", "a", "r">> THEN [kind |-> "Jar", file |-> file]
        ELSE [kind |-> "Exe", file |-> file]

\* Binary::from_path on the file with this number and extension
from_path(file, ext) ==
    LET lower == make_ascii_lowercase(ext)
    IN  IF ext = NoExt THEN NoBinary
        ELSE IF lower = <<"d", "l", "l">> THEN [kind |-> "Dll", file |-> file]
        ELSE IF lower = <<"j", "a", "r">> THEN [kind |-> "Jar", file |-> file]
        ELSE IF lower = <<"e", "x", "e">> THEN [kind |-> "Exe", file |-> file]
        ELSE NoBinary

Bail == [kind |-> "Bail", file |-> 0]

\* a match that keeps the first candidate only
CandidateFirstOnly(executable, detected) ==
    IF executable = NoBinary THEN detected ELSE Bail

\* Binary::search, the match on (executable, detected_binary): the new
\* value of executable, or Bail
Candidate(executable, detected) ==
    IF executable = NoBinary /\ detected.kind = "Dll" THEN detected
    ELSE IF executable.kind = "Dll" /\ detected.kind = "Jar" THEN executable
    ELSE IF executable = NoBinary /\ detected.kind = "Jar" THEN detected
    ELSE IF executable = NoBinary /\ detected.kind = "Exe" THEN detected
    ELSE IF executable.kind \in {"Dll", "Jar"} /\ detected.kind = "Exe" THEN detected
    ELSE Bail

NotFound == "No binary found"
Ambiguous == "Found multiple binary candidates"

ResultOk(binary) == [tag |-> "Ok", binary |-> binary, err |-> None]
ResultErr(msg) == [tag |-> "Err", binary |-> NoBinary, err |-> msg]
Pending == [tag |-> "Pending", binary |-> NoBinary, err |-> None]

\* Binary::search from entry k on, entries in the order read_dir yields them
RECURSIVE SearchFrom(_, _, _)
SearchFrom(entries, k, executable) ==
    IF k > Len(entries)
    THEN IF executable = NoBinary THEN ResultErr(NotFound) ELSE ResultOk(executable)
    ELSE LET detected == from_path(entries[k].file, entries[k].ext)
         IN  IF detected = NoBinary THEN SearchFrom(entries, k + 1, executable)
             ELSE LET next == Candidate(executable, detected)
                  IN  IF next = Bail THEN ResultErr(Ambiguous)
                      ELSE SearchFrom(entries, k + 1, next)

\* Binary::search
search(entries) == SearchFrom(entries, 1, NoBinary)

\* definition.executable: None, or the extension of the path given
NoOverride == <<"None">>
OverrideFile == 0

\* an override that is not looked at
override_ignored(executable) == NoBinary

\* PreparedBot::prepare, lines 243-248: the binary the override names
override_binary(executable) ==
    IF executable = NoOverride THEN NoBinary ELSE from_path(OverrideFile, executable)

(***************************************************************************)
(* Processes.                                                              *)
(***************************************************************************)
Bwapi(k) == << "bwapi", k >>
BotProc(k) == << "bot", k >>

\* a process main has not looked at since it saw it running may have ended
StateNow(st) == IF st = "running" THEN {"running", "exited"} ELSE {st}

\* Child::try_wait: the results the status query of a process can give
try_wait(st) == IF st = "running" THEN {"None", "Err"} ELSE {"Some", "Err"}

\* a readiness closure that does not look at the table
ReadyOpBlind(free) == "Ok"

\* the closure of the readiness wait
ReadyOp(free) == IF free THEN "Ok" ELSE "Retry"

\* a connection closure that does not wait for the table to fill
ConnOpNoWait(slots_filled, bwapi_status, child_status) ==
    IF bwapi_status # "None" THEN "BWAPI process died"
    ELSE IF child_status # "None" THEN "Bot process died"
    ELSE "Ok"

\* a connection closure that does not look at the processes
ConnOpNoLiveness(slots_filled, bwapi_status, child_status) ==
    IF slots_filled THEN "Ok" ELSE "Retry"

\* a connection closure that looks at the table first
ConnOpTableFirst(slots_filled, bwapi_status, child_status) ==
    IF slots_filled THEN "Ok"
    ELSE IF bwapi_status # "None" THEN "BWAPI process died"
    ELSE IF child_status # "None" THEN "Bot process died"
    ELSE "Retry"

\* the closure of the connection wait
ConnOp(slots_filled, bwapi_status, child_status) ==
    IF bwapi_status # "None" THEN "BWAPI process died"
    ELSE IF child_status # "None" THEN "Bot process died"
    ELSE IF slots_filled THEN "Ok"
    ELSE "Retry"

\* a retry that takes running out of delays for success
retry_silent(used, result) ==
    IF result = "Ok" THEN "Ok"
    ELSE IF result = "Retry"
         THEN IF used < RetryTake THEN "Again" ELSE "Ok"
         ELSE "Failed"

\* a retry that never runs out of delays
retry_unbounded(used, result) ==
    IF result = "Ok" THEN "Ok"
    ELSE IF result = "Retry" THEN "Again"
    ELSE "Failed"

\* retry::retry after one call of the closure, used delays already consumed:
\* the wait is over with success, goes on after a delay, is out of delays, or
\* is over with the closure's error
retry(used, result) ==
    IF result = "Ok" THEN "Ok"
    ELSE IF result = "Retry"
         THEN IF used < RetryTake THEN "Again" ELSE "Exhausted"
         ELSE "Failed"

\* the host flag is not taken back
NextHostKept(hostFlag) == hostFlag

\* host = false after the launcher of a bot was built
NextHost(hostFlag) == FALSE

\* an error that is dropped: the control flow goes on
PropagateIgnored(cont) == cont

\* the ? operator on a failed step: main returns the error, nothing of the
\* loop or of the supervision runs afterwards (cont is where the control flow
\* would go on otherwise)
Propagate(cont) == "error"

\* handles that kill their process when dropped
drop_children_kill(procs) == {p \in DOMAIN procs : procs[p] = "running"}

\* the kills sent when main returns with an error and the Child handles it
\* owns are dropped: dropping a Child neither kills nor waits
drop_children(procs) == {}

\* a vector that always counts as empty
is_empty_always(v) == TRUE

\* Vec::is_empty
is_empty(v) == v = << >>

\* Vec::swap_remove
swap_remove(s, k) ==
    [j \in 1..(Len(s) - 1) |-> IF j = k THEN s[Len(s)] ELSE s[j]]

\* the engines a pass over idx instances queries, last index first
ReverseOrder(inst, idx) == [n \in 1..idx |-> inst[idx + 1 - n].bwheadless]

\* a pass that removes the instance and leaves its bot process alone
RECURSIVE SupervisePassNoKill(_, _, _, _)
SupervisePassNoKill(inst, idx, obs, killed) ==
    IF idx = 0 THEN [instances |-> inst, killed |-> killed, checked |-> << >>, panic |-> FALSE]
    ELSE LET rest == IF obs[inst[idx].bwheadless] = "Some"
                     THEN SupervisePassNoKill(swap_remove(inst, idx), idx - 1, obs, killed)
                     ELSE SupervisePassNoKill(inst, idx - 1, obs, killed)
         IN  [rest EXCEPT !.checked = << inst[idx].bwheadless >> \o @]

\* a pass that, when it sees one engine ended, kills every bot process and
\* removes every instance
SupervisePassDrain(inst, idx, obs, killed) ==
    IF \E n \in 1..idx : obs[inst[n].bwheadless] = "Some"
    THEN [instances |-> << >>,
          killed |-> killed \cup {BotProc(inst[n].bot) : n \in {m \in 1..idx : inst[m].bot # 0}},
          checked |-> ReverseOrder(inst, idx), panic |-> FALSE]
    ELSE [instances |-> inst, killed |-> killed,
          checked |-> ReverseOrder(inst, idx), panic |-> FALSE]

\* a pass that kills every bot process and its engine, whatever the status
\* queries say, and removes nothing
SupervisePassKillAll(inst, idx, obs, killed) ==
    [instances |-> inst,
     killed |-> killed
                \cup {BotProc(inst[n].bot) : n \in {m \in 1..idx : inst[m].bot # 0}}
                \cup {Bwapi(inst[n].bwheadless) : n \in 1..idx},
     checked |-> ReverseOrder(inst, idx), panic |-> FALSE]

\* a pass that, after a removal, looks again at the index it removed from
RECURSIVE SupervisePassRecheck(_, _, _, _)
SupervisePassRecheck(inst, idx, obs, killed) ==
    IF idx = 0 THEN [instances |-> inst, killed |-> killed, checked |-> << >>, panic |-> FALSE]
    ELSE IF idx > Len(inst)
    THEN [instances |-> inst, killed |-> killed, checked |-> << >>, panic |-> TRUE]
    ELSE LET rest == IF obs[inst[idx].bwheadless] = "Some"
                     THEN SupervisePassRecheck(swap_remove(inst, idx),
                                               IF idx < Len(inst) THEN idx ELSE idx - 1, obs,
                                               IF inst[idx].bot # 0
                                               THEN killed \cup {BotProc(inst[idx].bot)}
                                               ELSE killed)
                     ELSE SupervisePassRecheck(inst, idx - 1, obs, killed)
         IN  [rest EXCEPT !.checked = << inst[idx].bwheadless >> \o @]

\* a pass that takes a failing status query for an exit, as the connection
\* wait does
RECURSIVE SupervisePassErrExit(_, _, _, _)
SupervisePassErrExit(inst, idx, obs, killed) ==
    IF idx = 0 THEN [instances |-> inst, killed |-> killed, checked |-> << >>, panic |-> FALSE]
    ELSE IF idx > Len(inst)
    THEN [instances |-> inst, killed |-> killed, checked |-> << >>, panic |-> TRUE]
    ELSE LET rest == IF obs[inst[idx].bwheadless] # "None"
                     THEN SupervisePassErrExit(swap_remove(inst, idx), idx - 1, obs,
                                               IF inst[idx].bot # 0
                                               THEN killed \cup {BotProc(inst[idx].bot)}
                                               ELSE killed)
                     ELSE SupervisePassErrExit(inst, idx - 1, obs, killed)
         IN  [rest EXCEPT !.checked = << inst[idx].bwheadless >> \o @]

\* one pass of the supervision loop, for i in (0..instances.len()).rev():
\* obs[k] is the result of try_wait on the engine of bot k; checked are the
\* engines try_wait was called on, in order, and panic says that
\* instances[i] was out of bounds
RECURSIVE SupervisePass(_, _, _, _)
SupervisePass(inst, idx, obs, killed) ==
    IF idx = 0 THEN [instances |-> inst, killed |-> killed, checked |-> << >>, panic |-> FALSE]
    ELSE IF idx > Len(inst)
    THEN [instances |-> inst, killed |-> killed, checked |-> << >>, panic |-> TRUE]
    ELSE LET rest == IF obs[inst[idx].bwheadless] = "Some"
                     THEN SupervisePass(swap_remove(inst, idx), idx - 1, obs,
                                        IF inst[idx].bot # 0
                                        THEN killed \cup {BotProc(inst[idx].bot)}
                                        ELSE killed)
                     ELSE SupervisePass(inst, idx - 1, obs, killed)
         IN  [rest EXCEPT !.checked = << inst[idx].bwheadless >> \o @]

(***************************************************************************)
(* The state of one run of main.                                           *)
(***************************************************************************)
VARIABLES
    windows,        \* the build target: cfg(target_os = "windows")
    cfg,            \* GameConfig: human_host, map (is one set)
    prepared_bots,  \* Vec<PreparedBot>
    pc,             \* position of main
    i,              \* index of the bot the launch loop is at
    host,           \* the host flag of the launch loop
    instances,      \* Vec<BotProcess>: bwheadless, bot (0: None)
    tries,          \* delays the running wait has consumed (0 when no wait runs)
    game_table,     \* GameTableAccess.game_table is Some
    proc,           \* the state of every process of the match
    spawned,        \* the processes spawned, in order, with their role
    kills,          \* the processes a kill was sent to
    error,          \* the error main returned
    snap,           \* the value read by the poll that ended the last wait with
                    \* success or a timeout, until the next process is spawned or
                    \* the launch loop is over
    unavail,        \* the last poll of a wait read no table (none once the
                    \* launch loop is over)
    status,         \* what the status queries of the last connection poll
                    \* returned and whether all_slots_filled held of the table
                    \* it read (nothing once the launch loop is over)
    readySeen,      \* bots whose readiness wait read a table with a free slot
    connSeen,       \* bots whose connection wait read a filled table, both processes alive
    exitSeen,       \* bots whose engine a supervision pass has seen ended
    executable,     \* BotDefinition.executable of the bot being prepared
    dir,            \* the entries of its bwapi-data/AI folder, in the order read_dir yields them
    bot_binary,     \* the outcome of the resolution of its binary
    scanned,        \* Binary::search has read the folder
    shmem,          \* the shared region: Absent, or the table it holds
    last,           \* the latest call of the reader: the handle before it, whether
                    \* stores of another process ran into it, the outcome
                    \* of get_game_table, what has_free_slot and all_slots_filled
                    \* make of the value returned, the state of the engine that
                    \* created the region
    fresh,          \* the region has not changed since that call
    detect,         \* the detection of the BWAPI version of a bot in
                    \* PreparedBot::prepare: the checksum read, the version and the
                    \* tournament module made of it
    build,          \* one call of LaunchBuilder::build_command: its inputs, the
                    \* place it has reached, what it has done to the files and
                    \* what it returned
    naming          \* the game name through the launch loop of main: the bots
                    \* and the configuration, the loop's host flag and game_name,
                    \* and the launcher built for each bot so far

artifacts == << executable, dir, bot_binary, scanned >>
reader == << shmem, last, fresh >>
config == << windows, cfg, artifacts, reader, build, detect, naming >>
polled == << snap, unavail, status, readySeen, connSeen >>
observed == << snap, unavail, status, readySeen, connSeen, exitSeen >>

vars == << windows, cfg, prepared_bots, pc, i, host, instances, tries,
           game_table, proc, spawned, kills, error, snap, unavail, status, readySeen, connSeen,
           exitSeen, executable, dir, bot_binary, scanned, shmem, last, fresh, build, detect,
           naming >>

\* everything but the version detection and the call of build_command
launched_but_detect ==
    << windows, cfg, prepared_bots, pc, i, host, instances, tries,
       game_table, proc, spawned, kills, error, observed, artifacts, reader, naming >>

\* everything but the version detection, the call of build_command and the
\* game name
launched_but_detect_but_naming ==
    << windows, cfg, prepared_bots, pc, i, host, instances, tries,
       game_table, proc, spawned, kills, error, observed, artifacts, reader >>

\* everything but the call of build_command
launched == << windows, cfg, prepared_bots, pc, i, host, instances, tries,
              game_table, proc, spawned, kills, error, observed, artifacts, reader,
              detect, naming >>

NumBots == Len(prepared_bots)

\* no version detected
NoDetect == [step |-> "none"]

\* no call of build_command
NoBuild == [step |-> "none"]

\* no launch loop followed for its game name
NoNaming == [step |-> "none"]

\* no poll of a connection wait
NoPoll == [bw |-> "NotCalled", ch |-> "NotCalled", filled |-> FALSE]

\* no call of get_game_table yet
NoCall == [before |-> FALSE, raced |-> FALSE,
           out |-> [game_table |-> FALSE, table |-> Unavailable, opened |-> FALSE,
                    panic |-> FALSE],
           called |-> FALSE, changed |-> FALSE, free |-> FALSE, filled |-> FALSE,
           engine |-> "none"]

Procs == {Bwapi(k) : k \in 1..MaxBots} \cup {BotProc(k) : k \in 1..MaxBots}

\* the bots of a match as PreparedBot::prepare returns them, in the order of
\* the match configuration and named by their place in it
Matches ==
    UNION { { b \in PreparedBots(n) : \A k \in 1..n : b[k].name = k } : n \in 0..MaxBots }

Init ==
    /\ windows \in BOOLEAN
    /\ cfg \in {c \in [human_host : BOOLEAN, map : BOOLEAN] : c.human_host \/ c.map}
    /\ prepared_bots = << >>
    /\ pc = "start"
    /\ i = 1
    /\ host = ~cfg.human_host
    /\ instances = << >>
    /\ tries = 0
    /\ game_table = FALSE
    /\ proc = [p \in Procs |-> "none"]
    /\ spawned = << >>
    /\ kills = {}
    /\ error = None
    /\ snap = Unavailable
    /\ unavail = FALSE
    /\ status = NoPoll
    /\ readySeen = {}
    /\ connSeen = {}
    /\ exitSeen = {}
    /\ executable = NoOverride
    /\ dir = << >>
    /\ bot_binary = Pending
    /\ scanned = FALSE
    /\ shmem = Absent
    /\ last = NoCall
    /\ fresh = FALSE
    /\ detect = NoDetect
    /\ build = NoBuild
    /\ naming = NoNaming

\* the step that fails: main returns kind, the handles are dropped
Fail(kind, cont, procs) ==
    /\ error' = kind
    /\ pc' = Propagate(cont)
    /\ kills' = kills \cup drop_children(procs)

\* main, lines 375-393: the check for a stale game table
Startup ==
    /\ pc = "start"
    /\ \E r \in get_game_table(windows, game_table, StalePid) :
        /\ game_table' = r.game_table
        /\ IF r.panic
           THEN Fail("panic", "prepare", proc)
           ELSE pc' = "prepare" /\ UNCHANGED << kills, error >>
    /\ UNCHANGED << config, prepared_bots, i, host, instances, tries,
                    proc, spawned, observed >>

\* main, lines 395-431: bot.toml of every bot of the match is read, then
\* every bot is prepared; a file that cannot be read or parsed, or a bot that
\* cannot be prepared, ends main with the error
PrepareBots ==
    /\ pc = "prepare"
    /\ \E bots \in Matches :
        \E outcome \in {"Ok"} \cup IF bots = << >> THEN {}
                                  ELSE {"bot.toml", "PreparedBot::prepare"} :
            IF outcome = "Ok"
            THEN /\ prepared_bots' = bots
                 /\ pc' = "sort"
                 /\ UNCHANGED << kills, error >>
            ELSE /\ Fail(outcome, "sort", proc)
                 /\ UNCHANGED prepared_bots
    /\ UNCHANGED << config, i, host, instances, tries, game_table, proc, spawned, observed >>

\* main, lines 433-456: the launch order
SortBots ==
    /\ pc = "sort"
    /\ prepared_bots' = sort_by_key(prepared_bots)
    /\ host' = ~cfg.human_host
    /\ instances' = << >>
    /\ pc' = "loop"
    /\ UNCHANGED << config, i, tries, game_table, proc, spawned, kills, error, observed >>

\* main, lines 457-559 and 595-598: the launcher of bot i is built, the log
\* files of its engine are created and the engine is spawned, then the log
\* files of the bot are created; a Dll bot is recorded at once.  Each of
\* these steps can fail and end main: build_command, by the error it returns
\* or, for the injected launch of a host with a map, by its panic, and
\* File::create of game_out.log or game_err.log with no engine started,
\* File::create of bot_out.log or bot_err.log with the engine running
LaunchEngine ==
    /\ pc = "loop"
    /\ i <= NumBots
    /\ \E headful \in BOOLEAN :
        LET bot == prepared_bots[i]
            kind == IF headful THEN "Injectory" ELSE "BwHeadless"
            started == [proc EXCEPT ![Bwapi(i)] = "running"]
            entry == [proc |-> Bwapi(i), role |-> ConnectMode(host),
                      args |-> HostArgs(ConnectMode(host), cfg.map, player_count(prepared_bots))]
        IN  IF kind = "BwHeadless" /\ host /\ ~cfg.map
            THEN /\ Fail("bwheadless cannot host without a map", "loop", proc)
                 /\ UNCHANGED << host, proc, spawned, instances, i, tries >>
            ELSE /\ host' = NextHost(host)
                 /\ \E outcome \in {"Ok", "build_command", "game_out.log", "spawn",
                                     "bot_out.log"}
                                    \cup IF kind = "Injectory" /\ host /\ cfg.map
                                         THEN {"Map file has no parent directory"}
                                         ELSE {} :
                     CASE outcome = "Ok" ->
                             /\ proc' = started
                             /\ spawned' = Append(spawned, entry)
                             /\ IF bot_process(bot.binary) = None
                                THEN /\ instances' = push(instances, [bwheadless |-> i, bot |-> 0])
                                     /\ i' = i + 1
                                     /\ pc' = "loop"
                                ELSE /\ pc' = "ready_wait"
                                     /\ UNCHANGED << instances, i >>
                             /\ UNCHANGED << tries, kills, error >>
                       [] outcome = "bot_out.log" ->
                             /\ proc' = started
                             /\ spawned' = Append(spawned, entry)
                             /\ Fail("File::create",
                                     IF bot_process(bot.binary) = None THEN "loop" ELSE "ready_wait",
                                     started)
                             /\ UNCHANGED << instances, i, tries >>
                       [] outcome = "game_out.log" ->
                             /\ Fail("File::create", "ready_wait", proc)
                             /\ UNCHANGED << proc, spawned, instances, i, tries >>
                       [] OTHER ->
                             /\ Fail(outcome, "ready_wait", proc)
                             /\ UNCHANGED << proc, spawned, instances, i, tries >>
    /\ snap' = Unavailable
    /\ UNCHANGED << config, prepared_bots, game_table, unavail, status, readySeen, connSeen,
                    exitSeen >>

\* main, lines 561-568: one poll of the readiness wait; the table the poll
\* read is kept when the poll ends the wait
ReadyTick ==
    /\ pc = "ready_wait"
    /\ \E v \in PollsSeen[windows, game_table, i] :
        \E res \in { retry(tries, ReadyOp(v.free)) } :
            /\ game_table' = v.game_table
            /\ unavail' = (~v.panic /\ v.unavailable)
            /\ readySeen' = IF v.free THEN readySeen \cup {i} ELSE readySeen
            /\ CASE v.panic ->
                        /\ Fail("panic", "spawn_bot", proc)
                        /\ tries' = 0
                        /\ UNCHANGED snap
                 [] res = "Ok" ->
                        /\ pc' = "spawn_bot"
                        /\ tries' = 0
                        /\ \E r \in CallsSeenAs(windows, game_table, i, v) : snap' = r.table
                        /\ UNCHANGED << kills, error >>
                 [] res = "Again" ->
                        /\ tries' = tries + 1
                        /\ UNCHANGED << pc, snap, kills, error >>
                 [] OTHER ->
                        /\ Fail("Server process not ready", "spawn_bot", proc)
                        /\ tries' = 0
                        /\ \E r \in CallsSeenAs(windows, game_table, i, v) : snap' = r.table
    /\ UNCHANGED << config, prepared_bots, i, host, instances, proc, spawned, status, connSeen,
                    exitSeen >>

\* main, lines 570-574: the bot's own process is spawned
SpawnBot ==
    /\ pc = "spawn_bot"
    /\ \E ok \in BOOLEAN :
        IF ok
        THEN /\ proc' = [proc EXCEPT ![BotProc(i)] = "running"]
             /\ spawned' = Append(spawned, [proc |-> BotProc(i), role |-> "Client",
                                         args |-> HostArgs("Client", FALSE, 0)])
             /\ pc' = "conn_wait"
             /\ UNCHANGED << kills, error >>
        ELSE /\ Fail("spawn", "conn_wait", proc)
             /\ UNCHANGED << proc, spawned >>
    /\ snap' = Unavailable
    /\ UNCHANGED << config, prepared_bots, i, host, instances, tries, game_table,
                    unavail, status, readySeen, connSeen, exitSeen >>

\* one status query of a process last seen in state st: the state it is in
\* at the call (it may have ended since) and what try_wait returns
Query(st) ==
    { x \in [now : StateNow(st), q : {"None", "Some", "Err"}] : x.q \in try_wait(x.now) }

\* the poll of the connection wait that saw v of the table and got b from
\* the engine's status query and c from the bot's; the table the poll read
\* is kept when the poll ends the wait with success or the timeout
ConnStep(v, b, c) ==
    \E op \in { ConnOp(v.filled, b.q, c.q) } :
    \E res \in { retry(tries, op) } :
    \E now \in { [proc EXCEPT ![Bwapi(i)] = b.now, ![BotProc(i)] = c.now] } :
        /\ game_table' = v.game_table
        /\ unavail' = v.unavailable
        /\ status' = [bw |-> b.q, ch |-> c.q, filled |-> v.filled]
        /\ proc' = now
        /\ connSeen' = IF v.filled /\ b.q = "None" /\ c.q = "None"
                       THEN connSeen \cup {i} ELSE connSeen
        /\ CASE res = "Ok" ->
                    /\ instances' = push(instances, [bwheadless |-> i, bot |-> i])
                    /\ i' = i + 1
                    /\ pc' = "loop"
                    /\ tries' = 0
                    /\ \E r \in CallsSeenAs(windows, game_table, i, v) : snap' = r.table
                    /\ UNCHANGED << kills, error >>
             [] res = "Again" ->
                    /\ tries' = tries + 1
                    /\ UNCHANGED << pc, i, instances, snap, kills, error >>
             [] res = "Exhausted" ->
                    /\ Fail("Bot client executable did not connect to BWAPI server (did you try to run a human hosted game without hosting it?)",
                            "loop", now)
                    /\ tries' = 0
                    /\ \E r \in CallsSeenAs(windows, game_table, i, v) : snap' = r.table
                    /\ UNCHANGED << i, instances >>
             [] OTHER ->
                    /\ Fail(op, "loop", now)
                    /\ tries' = 0
                    /\ UNCHANGED << i, instances, snap >>

\* main, lines 576-598: one poll of the connection wait; on success the pair
\* is recorded and the loop goes on with the next bot.  The closure reads the
\* table (a panic of the read ends main), queries the engine and, when the
\* engine runs, the bot.
ConnTick ==
    /\ pc = "conn_wait"
    /\ \E v \in PollsSeen[windows, game_table, i] :
        IF v.panic
        THEN /\ Fail("panic", "loop", proc)
             /\ game_table' = v.game_table
             /\ unavail' = FALSE
             /\ status' = NoPoll
             /\ tries' = 0
             /\ UNCHANGED << proc, connSeen, i, instances, snap >>
        ELSE \E b \in Query(proc[Bwapi(i)]) :
                IF b.q = "None"
                THEN \E c \in Query(proc[BotProc(i)]) : ConnStep(v, b, c)
                ELSE ConnStep(v, b, [now |-> proc[BotProc(i)], q |-> "NotCalled"])
    /\ UNCHANGED << config, prepared_bots, host, spawned, readySeen, exitSeen >>

\* a process ends by itself while main supervises the match
ProcessExit ==
    /\ pc = "supervise"
    /\ \E p \in Procs :
        /\ proc[p] = "running"
        /\ proc' = [proc EXCEPT ![p] = "exited"]
    /\ UNCHANGED << config, prepared_bots, pc, i, host, instances, tries,
                    game_table, spawned, kills, error, observed >>

\* main, line 599/603: the launch loop is over, and with it the polls of
\* the waits
EnterSupervision ==
    /\ pc = "loop"
    /\ i > NumBots
    /\ pc' = "supervise"
    /\ snap' = Unavailable
    /\ unavail' = FALSE
    /\ status' = NoPoll
    /\ UNCHANGED << config, prepared_bots, i, host, instances, tries,
                    game_table, proc, spawned, kills, error, readySeen, connSeen, exitSeen >>

\* the engines of the instances main supervises
Supervised == { instances[n].bwheadless : n \in DOMAIN instances }

\* the answers the status queries of one pass can get, one for the engine of
\* every instance
Observations ==
    { obs \in [Supervised -> {"None", "Some", "Err"}] :
        \A k \in Supervised : obs[k] \in try_wait(proc[Bwapi(k)]) }

\* main, lines 603-619: one pass over the instances
SuperviseTick ==
    /\ pc = "supervise"
    /\ ~is_empty(instances)
    /\ \E obs \in Observations :
        /\ \E pass \in { SupervisePass(instances, Len(instances), obs, {}) } :
               /\ instances' = pass.instances
               /\ kills' = kills \cup pass.killed
               /\ proc' = [p \in Procs |->
                            IF p \in pass.killed /\ proc[p] = "running" THEN "exited" ELSE proc[p]]
               /\ pc' = IF pass.panic THEN "error" ELSE pc
               /\ error' = IF pass.panic THEN "index out of bounds" ELSE error
        /\ exitSeen' = exitSeen \cup
                {instances[n].bwheadless : n \in {m \in DOMAIN instances :
                                                    obs[instances[m].bwheadless] = "Some"}}
    /\ UNCHANGED << config, prepared_bots, i, host, tries, game_table,
                    spawned, polled >>

\* main, lines 603 and 620-621: no instance is left
Finish ==
    /\ pc = "supervise"
    /\ is_empty(instances)
    /\ pc' = "done"
    /\ UNCHANGED << config, prepared_bots, i, host, instances, tries,
                    game_table, proc, spawned, kills, error, observed >>

Next ==
    \/ Startup
    \/ PrepareBots
    \/ SortBots
    \/ LaunchEngine
    \/ ReadyTick
    \/ SpawnBot
    \/ ConnTick
    \/ ProcessExit
    \/ EnterSupervision
    \/ SuperviseTick
    \/ Finish

Spec == Init /\ [][Next]_vars

\* the supervision loop keeps running: a pass follows a pass after the sleep
\* of one second, the status query of an engine that has ended reports it
\* at some pass, and main returns once the loop condition is false
LiveSpec ==
    /\ Spec
    /\ WF_vars(SuperviseTick /\ instances' # instances)
    /\ WF_vars(Finish)

\* the folders a bot can come with: the files 1..n with an extension each
\* (the files numbered in the order of ExtList, a folder being a set of
\* files), in every order read_dir can yield them
Folders ==
    UNION { { [k \in 1..n |-> [file |-> order[k], ext |-> ExtList[ext[order[k]]]]] :
                ext \in {e \in [1..n -> DOMAIN ExtList] :
                            \A a, b \in 1..n : a < b => e[a] <= e[b]},
                order \in Permutations(1..n) } :
            n \in 0..MaxEntries }

\* one bot is prepared: main has not begun the match
PrepareInit ==
    /\ windows = TRUE
    /\ cfg = [human_host |-> FALSE, map |-> TRUE]
    /\ prepared_bots = << >>
    /\ pc = "start"
    /\ i = 1
    /\ host = TRUE
    /\ instances = << >>
    /\ tries = 0
    /\ game_table = FALSE
    /\ proc = [p \in Procs |-> "none"]
    /\ spawned = << >>
    /\ kills = {}
    /\ error = None
    /\ snap = Unavailable
    /\ unavail = FALSE
    /\ status = NoPoll
    /\ readySeen = {}
    /\ connSeen = {}
    /\ exitSeen = {}
    /\ executable \in {NoOverride} \cup Exts
    /\ dir \in Folders
    /\ bot_binary = Pending
    /\ scanned = FALSE
    /\ shmem = Absent
    /\ last = NoCall
    /\ fresh = FALSE
    /\ detect = NoDetect
    /\ build = NoBuild
    /\ naming = NoNaming

\* PreparedBot::prepare, lines 243-255: the binary the definition names, or
\* else the one found in the folder
Prepare ==
    /\ bot_binary = Pending
    /\ LET named == override_binary(executable)
       IN  IF named # NoBinary
           THEN /\ bot_binary' = ResultOk(named)
                /\ scanned' = FALSE
           ELSE /\ bot_binary' = search(dir)
                /\ scanned' = TRUE
    /\ UNCHANGED << naming, detect, build, windows, cfg, prepared_bots, pc, i, host, instances, tries,
                    game_table, proc, spawned, kills, error, observed, executable, dir,
                    reader >>

PrepareNext == Prepare

PrepareSpec == PrepareInit /\ [][PrepareNext]_vars

\* the process id an engine registers in the region a reader is run against
ReaderPid == 1

\* the slots the engines of the region write: the first and the last
WrittenSlots == { 1, NumSlots }

\* the tables the region can hold: a written slot empty or owned, connected
\* or not, at most MaxOccupied of them owned
ReaderTables ==
    { t \in UNION { { [s \in 1..NumSlots |->
                            IF s \in owned THEN GameInstance(ReaderPid, s \in conn)
                            ELSE EmptyInstance] : conn \in SUBSET owned } :
                    owned \in SUBSET WrittenSlots } :
        Cardinality({s \in 1..NumSlots : t[s].server_process_id # 0}) <= MaxOccupied }

\* one reader and the region, main not run
ReaderInit ==
    /\ windows \in BOOLEAN
    /\ cfg = [human_host |-> FALSE, map |-> TRUE]
    /\ prepared_bots = << >>
    /\ pc = "start"
    /\ i = 1
    /\ host = TRUE
    /\ instances = << >>
    /\ tries = 0
    /\ game_table = FALSE
    /\ proc = [p \in Procs |-> "none"]
    /\ spawned = << >>
    /\ kills = {}
    /\ error = None
    /\ snap = Unavailable
    /\ unavail = FALSE
    /\ status = NoPoll
    /\ readySeen = {}
    /\ connSeen = {}
    /\ exitSeen = {}
    /\ executable = NoOverride
    /\ dir = << >>
    /\ bot_binary = Pending
    /\ scanned = FALSE
    /\ shmem = Absent
    /\ last = NoCall
    /\ fresh = FALSE
    /\ detect = NoDetect
    /\ build = NoBuild
    /\ naming = NoNaming

\* an engine starts and creates the region
RegionCreate ==
    /\ shmem = Absent
    /\ shmem' \in ReaderTables
    /\ proc' = [proc EXCEPT ![Bwapi(ReaderPid)] = "running"]
    /\ fresh' = FALSE
    /\ UNCHANGED << naming, detect, build, windows, cfg, prepared_bots, pc, i, host, instances, tries, game_table,
                    spawned, kills, error, observed, artifacts, last >>

\* a process other than the reader writes one slot of the region between
\* two calls of the reader
RegionWrite ==
    /\ shmem # Absent
    /\ \E s \in 1..NumSlots, v \in {EmptyInstance, GameInstance(ReaderPid, FALSE),
                                     GameInstance(ReaderPid, TRUE)} :
        /\ v # shmem[s]
        /\ [shmem EXCEPT ![s] = v] \in ReaderTables
        /\ shmem' = [shmem EXCEPT ![s] = v]
    /\ fresh' = FALSE
    /\ UNCHANGED << naming, detect, build, windows, cfg, prepared_bots, pc, i, host, instances, tries, game_table,
                    proc, spawned, kills, error, observed, artifacts, last >>

\* the engine that created the region ends: the region is gone with it,
\* unless a handle of the reader keeps it, as it is and with what it holds
RegionRemove ==
    /\ shmem # Absent
    /\ proc[Bwapi(ReaderPid)] = "running"
    /\ proc' = [proc EXCEPT ![Bwapi(ReaderPid)] = "exited"]
    /\ shmem' = IF game_table THEN shmem ELSE Absent
    /\ fresh' = IF game_table THEN fresh ELSE FALSE
    /\ UNCHANGED << naming, detect, build, windows, cfg, prepared_bots, pc, i, host, instances, tries, game_table,
                    spawned, kills, error, observed, artifacts, last >>

\* one call of the reader (get_game_table, has_free_slot, all_slots_filled,
\* which all start with get_game_table): a call no store runs into, or a
\* call during which another process stores into the region any number of
\* times and leaves it as after; a panic ends the reader
Snapshot ==
    /\ ~last.out.panic
    /\ \E raced \in IF shmem = Absent THEN { FALSE } ELSE BOOLEAN :
       \E r \in ReadRegion(windows, game_table, shmem,
                            IF raced THEN ReaderTables ELSE { shmem }) :
       \E c \in { [raced |-> raced, after |-> after] :
                    after \in IF raced THEN ReaderTables ELSE { shmem } } :
        /\ shmem' = c.after
        /\ game_table' = r.game_table
        /\ last' = [before |-> game_table, raced |-> c.raced, out |-> r, called |-> TRUE,
                    changed |-> last.called /\ ~fresh,
                    free |-> has_free_slot(r.table),
                    filled |-> all_slots_filled(r.table),
                    engine |-> proc[Bwapi(ReaderPid)]]
    /\ fresh' = TRUE
    /\ UNCHANGED << naming, detect, build, windows, cfg, prepared_bots, pc, i, host, instances, tries,
                    proc, spawned, kills, error, observed, artifacts >>

ReaderNext ==
    \/ RegionCreate
    \/ RegionWrite
    \/ RegionRemove
    \/ Snapshot

ReaderSpec == ReaderInit /\ [][ReaderNext]_vars

(***************************************************************************)
(* LaunchBuilder::build_command of the two launch strategies.              *)
(***************************************************************************)
\* the names a bot folder can have, as code units; 255 is a unit that is no
\* Unicode text
FolderNames == { << 98 >>, << 98, 111 >>, << 98, 255 >> }

\* a path below a bot folder: the name of the folder and the components
\* joined to it
BotBasePaths == { [base |-> n, rel |-> << >>] : n \in FolderNames }

\* the root of the file system, the path "/"
RootPath == [base |-> << 47 >>, rel |-> << >>]

\* the empty path
EmptyPath == [base |-> << >>, rel |-> << >>]

\* the folder StarCraft is installed in
StarcraftPath == [base |-> << 115 >>, rel |-> << >>]

\* Path::join: an absolute component replaces the path
join(path, component) ==
    IF component = "/" THEN RootPath ELSE [path EXCEPT !.rel = Append(@, component)]

\* Path::parent, the Option as the set of its values: the path without its
\* last component, None for the root and for the empty path
parent(path) ==
    IF path \in { RootPath, EmptyPath } THEN {}
    ELSE IF path.rel = << >> THEN { EmptyPath }
    ELSE { [path EXCEPT !.rel = SubSeq(@, 1, Len(@) - 1)] }

\* Path::exists of a path a call asks for, named file among those that
\* exist: the root is always there
path_exists(path, file, exists) == path = RootPath \/ file \in exists

\* Path::to_string_lossy: a unit that is no Unicode text becomes U+FFFD
to_string_lossy(path) ==
    [path EXCEPT !.base = [k \in DOMAIN path.base |->
                                IF path.base[k] = 255 THEN 65533 ELSE path.base[k]]]

\* the variable holds the folder of the bot instead of the file
config_ini_env_folder(bwapi_ini, bot_base_path) == to_string_lossy(bot_base_path)

\* cmd.env("BWAPI_CONFIG_INI", &*bwapi_ini.to_string_lossy())
config_ini_env(bwapi_ini, bot_base_path) == to_string_lossy(bwapi_ini)

Strategies == { "BwHeadless", "Injectory" }

\* BwHeadlessConnectMode and InjectoryConnectMode: the map of a host is a
\* file below the folder of StarCraft or the root, and only an injected host
\* can be without a map; a host gets the player count of the match (bots:
\* the number of its bots)
ConnectModes(strategy, bots) ==
    { [kind |-> "Host", map |-> m,
       player_count |-> player_count([k \in 1..bots |-> k])] : m \in { "map", "/" } }
    \cup { [kind |-> "Join", map |-> None, player_count |-> 0] }
    \cup IF strategy = "Injectory"
         THEN { [kind |-> "Host", map |-> None,
                 player_count |-> player_count([k \in 1..bots |-> k])] }
         ELSE {}

\* the game names a launcher can be built with: the default of the
\* configuration, and the one of a match a human hosts, which is no name
\* for bwheadless
GameNames(strategy) ==
    IF strategy = "Injectory" THEN { "shotgun", "JOIN_FIRST" } ELSE { "shotgun", None }

\* SandboxMode of a bwheadless launcher and ExecutionWrapper of an injectory
\* one (Unconfigured wraps as NoSandbox and NoWrapper do)
Wrappers(strategy) ==
    IF strategy = "Injectory" THEN { "NoWrapper", "Wine", "Sandboxie" }
    ELSE { "NoSandbox", "Sandboxie" }

\* wrap_executable: the program of the command and its first arguments
wrap_executable(wrapper, exe) ==
    CASE wrapper = "Sandboxie" ->
            [program |-> "Sandboxie", args |-> << "/wait", "/silent", "/box:{}", exe >>]
      [] wrapper = "Wine" -> [program |-> "wine", args |-> << exe >>]
      [] OTHER -> [program |-> exe, args |-> << >>]

\* the files a call asks for, and the sets of them that can exist together
RequiredFiles == { "StarCraft.exe", "bwapi-data", "BWAPI.dll", "tool", "map" }
Existing == { e \in SUBSET RequiredFiles : "BWAPI.dll" \in e => "bwapi-data" \in e }

\* the file operations of a call that can fail, at most one of them
IoFailures == { {}, {"create"}, {"write"}, {"create_dir_all"}, {"copy"} }

\* the launcher tool is not looked for
PreconditionsNoTool ==
    << << "StarCraft.exe", "Could not find 'StarCraft.exe'" >>,
       << "bwapi-data", "Missing '{}' - please read the instructions on how to setup a bot." >>,
       << "BWAPI.dll", "Could not find '{}'" >> >>

\* the ensure! of both strategies, in their order, with their messages
Preconditions ==
    << << "StarCraft.exe", "Could not find 'StarCraft.exe'" >>,
       << "bwapi-data", "Missing '{}' - please read the instructions on how to setup a bot." >>,
       << "BWAPI.dll", "Could not find '{}'" >>,
       << "tool", "Could not find '{}'. Please make sure to extract all files, or check your antivirus software." >> >>

MapMissing == "Map '{}' does not exist"
IoError == "io"

\* the message of the first ensure! that fails, None when all hold
RECURSIVE FirstMissing(_, _)
FirstMissing(checks, exists) ==
    IF checks = << >> THEN None
    ELSE IF Head(checks)[1] \notin exists THEN Head(checks)[2]
         ELSE FirstMissing(Tail(checks), exists)

\* a host that lets every slot of the game fill and names the game
AutoMenuLinesOpen(strategy, connect_mode, game_name) ==
    IF strategy = "BwHeadless" THEN << >>
    ELSE << << "auto_menu", "LAN" >>, << "lan_mode", "Local PC" >>,
            << "character_name", "name" >>, << "race", "race" >> >>
         \o (IF connect_mode.kind = "Host"
             THEN << << "wait_for_min_players", connect_mode.player_count >>,
                     << "wait_for_max_players", NumSlots >> >>
             ELSE << >>)
         \o << << "game", game_name >> >>

\* the [auto_menu] lines BwapiIni::write emits for the auto_menu a strategy
\* sets: bwheadless leaves it Unused, injectory fills it from its connect mode
AutoMenuLines(strategy, connect_mode, game_name) ==
    IF strategy = "BwHeadless" THEN << >>
    ELSE << << "auto_menu", "LAN" >>, << "lan_mode", "Local PC" >>,
            << "character_name", "name" >>, << "race", "race" >> >>
         \o IF connect_mode.kind = "Host"
            THEN (IF connect_mode.map # None THEN << << "map", connect_mode.map >> >> ELSE << >>)
                 \o << << "wait_for_min_players", connect_mode.player_count >>,
                       << "wait_for_max_players", connect_mode.player_count >> >>
            ELSE << << "game", game_name >> >>

\* the contents of the configuration file: not there, left by an earlier
\* run, created and not written to the end, or written by this call
IniAbsent == [state |-> "absent", auto_menu |-> << >>]
IniOld == [state |-> "old", auto_menu |-> << >>]
IniTruncated == [state |-> "truncated", auto_menu |-> << >>]
IniWritten(strategy, connect_mode, game_name) ==
    [state |-> "written", auto_menu |-> AutoMenuLines(strategy, connect_mode, game_name)]

\* the launchers build_command is called on: a strategy, the path of
\* StarCraft.exe (in the folder of StarCraft, as main makes it, or a path
\* without a parent), the wrapper, wmode (injectory), the folder of the bot,
\* the number of bots of the match, the game name and the connect mode
Launchers ==
    UNION { { [strategy |-> st, starcraft_exe |-> x, wrapper |-> w, wmode |-> wm,
               bot_base_path |-> b, bots |-> n, game_name |-> g, connect_mode |-> m] :
                x \in { join(StarcraftPath, "StarCraft.exe"), RootPath },
                w \in Wrappers(st),
                wm \in IF st = "Injectory" THEN BOOLEAN ELSE { FALSE },
                b \in BotBasePaths, g \in GameNames(st), m \in ConnectModes(st, n) } :
            st \in Strategies, n \in 1..MaxBots }

\* the calls of build_command on launcher l: the files that exist, the file
\* operation that fails, and the configuration file as it is before the call
BuildInputs(l) ==
    { [step |-> "check", strategy |-> l.strategy, starcraft_exe |-> l.starcraft_exe,
       wrapper |-> l.wrapper, wmode |-> l.wmode, bot_base_path |-> l.bot_base_path,
       exists |-> e, bots |-> l.bots, game_name |-> l.game_name,
       connect_mode |-> l.connect_mode, fails |-> f, ini0 |-> c, bwapi_ini |-> c,
       wrote |-> None, copied |-> FALSE, result |-> Pending] :
        e \in { x \in Existing :
                    /\ l.starcraft_exe = RootPath => "StarCraft.exe" \in x
                    /\ l.connect_mode.map = "/" => "map" \in x },
        f \in IoFailures,
        c \in { IniAbsent, IniOld } }

LaunchInit ==
    /\ windows = TRUE
    /\ cfg = [human_host |-> FALSE, map |-> TRUE]
    /\ prepared_bots = << >>
    /\ pc = "start"
    /\ i = 1
    /\ host = TRUE
    /\ instances = << >>
    /\ tries = 0
    /\ game_table = FALSE
    /\ proc = [p \in Procs |-> "none"]
    /\ spawned = << >>
    /\ kills = {}
    /\ error = None
    /\ snap = Unavailable
    /\ unavail = FALSE
    /\ status = NoPoll
    /\ readySeen = {}
    /\ connSeen = {}
    /\ exitSeen = {}
    /\ executable = NoOverride
    /\ dir = << >>
    /\ bot_binary = Pending
    /\ scanned = FALSE
    /\ shmem = Absent
    /\ last = NoCall
    /\ fresh = FALSE
    /\ detect = NoDetect
    /\ naming = NoNaming
    /\ \E l \in Launchers :
        build \in { b \in BuildInputs(l) : b.ini0 = IniOld => "bwapi-data" \in b.exists }

\* build_command returns Err(message)
BuildErr(message) == [ok |-> FALSE, err |-> message, cmd |-> None, panic |-> None]

\* build_command does not return: it panics with message
BuildPanic(message) == [ok |-> FALSE, err |-> None, cmd |-> None, panic |-> message]

NoParent == "Folder containing 'StarCraft.exe' not found"
NoMapParent == "Map file has no parent directory"

\* the four ensure! at the head of build_command
CheckPreconditions ==
    /\ build.step = "check"
    /\ LET missing == FirstMissing(Preconditions, build.exists)
       IN  IF missing # None
           THEN build' = [build EXCEPT !.step = "done", !.result = BuildErr(missing)]
           ELSE build' = [build EXCEPT !.step = "write"]
    /\ UNCHANGED launched

\* File::create(&bwapi_ini)? and BwapiIni{..}.write(&mut bwapi_ini_file)?
WriteConfig ==
    /\ build.step = "write"
    /\ LET bwapi_data == join(build.bot_base_path, "bwapi-data")
           bwapi_ini == join(bwapi_data, "bwapi.ini")
       IN  IF "create" \in build.fails
           THEN build' = [build EXCEPT !.step = "done", !.result = BuildErr(IoError)]
           ELSE IF "write" \in build.fails
           THEN build' = [build EXCEPT !.step = "done", !.result = BuildErr(IoError),
                                       !.bwapi_ini = IniTruncated, !.wrote = bwapi_ini]
           ELSE build' = [build EXCEPT
                            !.step = IF build.strategy = "Injectory" THEN "map" ELSE "command",
                            !.bwapi_ini = IniWritten(build.strategy, build.connect_mode,
                                                    build.game_name),
                            !.wrote = bwapi_ini]
    /\ UNCHANGED launched

\* injectory only: the map of a host is looked for below the folder of
\* StarCraft, the folder it goes to below the folder of the bot is created
\* (the call panics when that path has no parent) and the map is copied
CopyMap ==
    /\ build.step = "map"
    /\ IF build.connect_mode.kind = "Host" /\ build.connect_mode.map # None
       THEN LET original_map == join(StarcraftPath, build.connect_mode.map)
                tmp_map == join(build.bot_base_path, build.connect_mode.map)
            IN  IF ~path_exists(original_map, "map", build.exists)
                THEN build' = [build EXCEPT !.step = "done", !.result = BuildErr(MapMissing)]
                ELSE IF parent(tmp_map) = {}
                THEN build' = [build EXCEPT !.step = "done", !.result = BuildPanic(NoMapParent)]
                ELSE IF "create_dir_all" \in build.fails
                THEN build' = [build EXCEPT !.step = "done", !.result = BuildErr(IoError)]
                ELSE IF "copy" \in build.fails
                THEN build' = [build EXCEPT !.step = "done", !.result = BuildErr(IoError)]
                ELSE build' = [build EXCEPT !.step = "command", !.copied = TRUE]
       ELSE build' = [build EXCEPT !.step = "command"]
    /\ UNCHANGED launched

\* the arguments bwheadless.exe is given before the folder of StarCraft is
\* looked for
HeadlessArgs(b) ==
    << "-e", b.starcraft_exe >>
    \o (IF b.game_name # None THEN << "-g", b.game_name >> ELSE << >>)
    \o << "-r", "race", "-l", join(join(b.bot_base_path, "bwapi-data"), "BWAPI.dll"),
          "--installpath", b.bot_base_path, "-n", "name", "-gs", "latency_frames" >>

\* the arguments of a host: the map below the folder of StarCraft and the
\* player count
HeadlessHostArgs(b, starcraft_path) ==
    IF b.connect_mode.kind = "Host"
    THEN << "-m", join(starcraft_path, b.connect_mode.map),
            "-h", b.connect_mode.player_count >>
    ELSE << >>

\* the arguments injectory_x86.exe is given
InjectoryArgs(b) ==
    << "-l", b.starcraft_exe, "-i", "oldbwapi.dll",
       join(join(b.bot_base_path, "bwapi-data"), "BWAPI.dll") >>
    \o (IF b.wmode THEN << "WMode.dll" >> ELSE << >>)
    \o << "--wait-for-exit", "--kill-on-exit" >>

\* the command: the launcher tool as the wrapper runs it, its arguments, the
\* environment and the working directory; bwheadless then looks for the
\* folder of StarCraft.exe and returns an error when the path has no parent
BuildCommand ==
    /\ build.step = "command"
    /\ LET bwapi_data == join(build.bot_base_path, "bwapi-data")
           bwapi_ini == join(bwapi_data, "bwapi.ini")
           env == IF build.strategy = "Injectory"
                  THEN [BWAPI_CONFIG_INI |-> config_ini_env(bwapi_ini, build.bot_base_path),
                        BWAISHOTGUN_INSTALLPATH |-> build.bot_base_path]
                  ELSE [BWAPI_CONFIG_INI |-> config_ini_env(bwapi_ini, build.bot_base_path)]
           tool == IF build.strategy = "Injectory" THEN "injectory_x86.exe"
                   ELSE "bwheadless.exe"
           cmd == wrap_executable(build.wrapper, tool)
       IN  IF build.strategy = "BwHeadless" /\ parent(build.starcraft_exe) = {}
           THEN build' = [build EXCEPT !.step = "done", !.result = BuildErr(NoParent)]
           ELSE build' = [build EXCEPT
                        !.step = "done",
                        !.result = [ok |-> TRUE, err |-> None, panic |-> None,
                                    cmd |-> [program |-> cmd.program,
                                             args |-> cmd.args
                                                \o IF build.strategy = "Injectory"
                                                   THEN InjectoryArgs(build)
                                                   ELSE HeadlessArgs(build)
                                                        \o HeadlessHostArgs(build,
                                                              CHOOSE d \in parent(build.starcraft_exe) : TRUE),
                                             env |-> env,
                                             current_dir |-> build.bot_base_path]]]
    /\ UNCHANGED launched

LaunchNext == CheckPreconditions \/ WriteConfig \/ CopyMap \/ BuildCommand

LaunchSpec == LaunchInit /\ [][LaunchNext]_vars

(***************************************************************************)
(* The BWAPI version of a bot, from the checksum of its BWAPI.dll.         *)
(***************************************************************************)
BwapiVersions == { "Bwapi375", "Bwapi412", "Bwapi420", "Bwapi440" }

\* the second checksum of 3.7.x is not known
from_u32_one_375(crc) ==
    CASE crc = << 29131, 8331 >> -> "Bwapi440"
      [] crc = << 53728, 56799 >> -> "Bwapi420"
      [] crc = << 9851, 53461 >> -> "Bwapi412"
      [] crc = << 20025, 51338 >> -> "Bwapi375"
      [] OTHER -> None

\* BwapiVersion::from_u32, a u32 as its two halves: 0x71CB208B, 0xD1E0DDDF, 0x267BD0D5, 0x4E39C88A and
\* 0x41128276
from_u32(crc) ==
    CASE crc = << 29131, 8331 >> -> "Bwapi440"
      [] crc = << 53728, 56799 >> -> "Bwapi420"
      [] crc = << 9851, 53461 >> -> "Bwapi412"
      [] crc = << 20025, 51338 >> -> "Bwapi375"
      [] crc = << 16658, 33398 >> -> "Bwapi375"
      [] OTHER -> None

\* BwapiVersion::version_short
version_short(version) ==
    CASE version = "Bwapi375" -> "375"
      [] version = "Bwapi412" -> "412"
      [] version = "Bwapi420" -> "420"
      [] version = "Bwapi440" -> "440"

\* a u32 as its upper and its lower 16 bits
U32 == (0..(2^16 - 1)) \X (0..(2^16 - 1))

\* the checksums a BWAPI.dll is given: the five known ones, the values whose
\* upper or lower half is up to MaxDelta away from one of them, and the
\* ends of the 32-bit range
KnownCrcs ==
    { << 29131, 8331 >>, << 53728, 56799 >>, << 9851, 53461 >>, << 20025, 51338 >>,
      << 16658, 33398 >> }
Crcs ==
    { << 0, 0 >>, << 2^16 - 1, 2^16 - 1 >> }
    \cup UNION { { << k[1] + d, k[2] >> : d \in (0 - MaxDelta)..MaxDelta }
                 \cup { << k[1], k[2] + d >> : d \in (0 - MaxDelta)..MaxDelta } :
                 k \in KnownCrcs }

\* TournamentModule of a BotDefinition
TournamentModules == { "None", "Default", "Custom" }

\* the bots whose version is to be detected
DetectInputs ==
    { [step |-> "read", crc |-> c, tournament_module |-> t, readable |-> r,
       tm_file |-> f, bwapi_version |-> None, result |-> Pending] :
        c \in Crcs, t \in TournamentModules, r \in BOOLEAN, f \in BOOLEAN }

DetectInit ==
    /\ windows = TRUE
    /\ cfg = [human_host |-> FALSE, map |-> TRUE]
    /\ prepared_bots = << >>
    /\ pc = "start"
    /\ i = 1
    /\ host = TRUE
    /\ instances = << >>
    /\ tries = 0
    /\ game_table = FALSE
    /\ proc = [p \in Procs |-> "none"]
    /\ spawned = << >>
    /\ kills = {}
    /\ error = None
    /\ snap = Unavailable
    /\ unavail = FALSE
    /\ status = NoPoll
    /\ readySeen = {}
    /\ connSeen = {}
    /\ exitSeen = {}
    /\ executable = NoOverride
    /\ dir = << >>
    /\ bot_binary = Pending
    /\ scanned = FALSE
    /\ shmem = Absent
    /\ last = NoCall
    /\ fresh = FALSE
    /\ build = NoBuild
    /\ naming = NoNaming
    /\ detect \in DetectInputs

\* what the detection leaves: the tournament module of the bot (its name as
\* prefix and version, NoModule for None), or an error
NoModule == << >>
DetectOk(tm_name) == [tag |-> "Ok", tournament_module |-> tm_name, err |-> None]
DetectErr(msg) == [tag |-> "Err", tournament_module |-> NoModule, err |-> msg]

\* PreparedBot::prepare from the checksum of BWAPI.dll to the tournament
\* module: the file is read, its checksum looked up, and for a bot with a
\* tournament module and a known version <prefix>_<version>.dll is copied
DetectVersion ==
    /\ detect.step = "read"
    /\ IF ~detect.readable
       THEN detect' = [detect EXCEPT !.step = "done",
                                     !.result = DetectErr("Could not check '{}'")]
       ELSE LET bwapi_version == from_u32(detect.crc)
                prefix == IF detect.tournament_module = "Custom" THEN "prefix" ELSE "tm"
            IN  IF detect.tournament_module = "None" \/ bwapi_version = None
                THEN detect' = [detect EXCEPT !.step = "done",
                                              !.bwapi_version = bwapi_version,
                                              !.result = DetectOk(NoModule)]
                ELSE IF ~detect.tm_file
                THEN detect' = [detect EXCEPT
                                    !.step = "done",
                                    !.bwapi_version = bwapi_version,
                                    !.result = DetectErr("Could not copy tournament module: '{}'")]
                ELSE detect' = [detect EXCEPT
                                    !.step = "done",
                                    !.bwapi_version = bwapi_version,
                                    !.result = DetectOk(<< prefix, version_short(bwapi_version) >>)]
    /\ UNCHANGED << build, launched_but_detect >>

DetectNext == DetectVersion

DetectSpec == DetectInit /\ [][DetectNext]_vars

(***************************************************************************)
(* The game name through the launch loop (main.rs, lines 449-532).         *)
(***************************************************************************)
\* PreparedBot.name of the bots of a match
PlayerNames == { "A", "B" }

\* GameConfig.game_name: absent, or a name
ConfiguredNames == { None, "custom" }

\* the prepared bots as far as the game name goes: the player name, whether
\* the bot runs headful, and whether its BWAPI version takes a character name
NamedBot ==
    [name : PlayerNames, headful : BOOLEAN, supports_character_name : BOOLEAN]
NamedBots == UNION { [1..n -> NamedBot] : n \in 1..MaxBots }

\* Option::unwrap_or
unwrap_or(opt, default) == IF opt = None THEN default ELSE opt

\* every headful bot renames the game
host_game_name_any(hostFlag, bot, game_name) ==
    IF bot.headful
    THEN (IF bot.supports_character_name THEN bot.name ELSE "BWAPI")
    ELSE game_name

\* main, lines 472-484: game_name after the head of the launcher choice, a
\* headful host renames the game to its player name, or to BWAPI
host_game_name(hostFlag, bot, game_name) ==
    IF bot.headful /\ hostFlag
    THEN (IF bot.supports_character_name THEN bot.name ELSE "BWAPI")
    ELSE game_name

\* main, lines 487-491 and 507-511: the game_name field of the launcher
launcher_game_name(bot, human_host, game_name) ==
    IF bot.headful
    THEN (IF human_host THEN "JOIN_FIRST" ELSE game_name)
    ELSE (IF human_host THEN None ELSE game_name)

\* BwHeadless::build_command: -g is passed when there is a game name
GameArg(game_name) ==
    IF game_name = None THEN << >> ELSE << << "-g", game_name >> >>

\* the launcher of one bot, as build_command renders its game name: the -g
\* argument of bwheadless, the [auto_menu] lines of an injected engine
Launcher(bot, hostFlag, human_host, map, count, game_name) ==
    LET strategy == IF bot.headful THEN "Injectory" ELSE "BwHeadless"
        connect_mode == [kind |-> ConnectMode(hostFlag),
                         map |-> IF hostFlag THEN map ELSE None,
                         player_count |-> IF hostFlag THEN count ELSE 0]
        name == launcher_game_name(bot, human_host, game_name)
    IN  [strategy |-> strategy,
         connect_mode |-> connect_mode.kind,
         game_name |-> name,
         args |-> IF bot.headful THEN << >> ELSE GameArg(name),
         auto_menu |-> AutoMenuLines(strategy, connect_mode, name)]

NameInputs ==
    { [step |-> "loop", bots |-> b, configured |-> c, human_host |-> h, map |-> m,
       k |-> 1, host |-> ~h, game_name |-> unwrap_or(c, "shotgun"),
       launches |-> << >>] :
        b \in NamedBots, c \in ConfiguredNames, h \in BOOLEAN, m \in { None, "map" } }

NameInit ==
    /\ windows = TRUE
    /\ cfg = [human_host |-> FALSE, map |-> TRUE]
    /\ prepared_bots = << >>
    /\ pc = "start"
    /\ i = 1
    /\ host = TRUE
    /\ instances = << >>
    /\ tries = 0
    /\ game_table = FALSE
    /\ proc = [p \in Procs |-> "none"]
    /\ spawned = << >>
    /\ kills = {}
    /\ error = None
    /\ snap = Unavailable
    /\ unavail = FALSE
    /\ status = NoPoll
    /\ readySeen = {}
    /\ connSeen = {}
    /\ exitSeen = {}
    /\ executable = NoOverride
    /\ dir = << >>
    /\ bot_binary = Pending
    /\ scanned = FALSE
    /\ shmem = Absent
    /\ last = NoCall
    /\ fresh = FALSE
    /\ build = NoBuild
    /\ detect = NoDetect
    /\ naming \in NameInputs

\* main, one turn of the loop over the prepared bots up to the built
\* command: the game name is settled, the launcher is built with it, the
\* host flag is cleared; a bwheadless host without a map, or a failing
\* build_command, ends main
NameLaunch ==
    /\ naming.step = "loop"
    /\ LET bot == naming.bots[naming.k]
           game_name == host_game_name(naming.host, bot, naming.game_name)
       IN  IF ~bot.headful /\ naming.host /\ naming.map = None
           THEN naming' = [naming EXCEPT !.step = "error"]
           ELSE \E ok \in BOOLEAN :
                  IF ok
                  THEN naming' = [naming EXCEPT
                          !.game_name = game_name,
                          !.host = NextHost(naming.host),
                          !.launches = Append(naming.launches,
                                          Launcher(bot, naming.host, naming.human_host,
                                                   naming.map, player_count(naming.bots),
                                                   game_name)),
                          !.k = naming.k + 1,
                          !.step = IF naming.k = Len(naming.bots) THEN "done" ELSE "loop"]
                  ELSE naming' = [naming EXCEPT
                          !.game_name = game_name,
                          !.host = NextHost(naming.host),
                          !.step = "error"]
    /\ UNCHANGED << build, detect, launched_but_detect_but_naming >>

NameNext == NameLaunch

NameSpec == NameInit /\ [][NameNext]_vars

TypeOK ==
    /\ pc \in {"start", "prepare", "sort", "loop", "ready_wait", "spawn_bot", "conn_wait",
               "supervise", "done", "error"}
    /\ tries \in 0..RetryTake
    /\ i \in 1..(NumBots + 1)

(***************************************************************************)
(* Claims.                                                                 *)
(***************************************************************************)
IsDll(k) == prepared_bots[k].binary = "Dll"

\* the positions of the spawn log at which process p was spawned
At(p) == {x \in DOMAIN spawned : spawned[x].proc = p}

\* the engine launches, in order
IsEngine(e) == e.proc[1] = "bwapi"
EngineLaunches == SelectSeq(spawned, IsEngine)

\* a table was read and none of its non-empty slots is disconnected
NoDisconnectedSlot(table) ==
    /\ table # Unavailable
    /\ \A s \in 1..NumSlots : table[s].server_process_id # 0 => table[s].is_connected

\* a table was read and a non-empty slot of it is disconnected
SomeDisconnectedSlot(table) ==
    /\ table # Unavailable
    /\ \E s \in 1..NumSlots : table[s].server_process_id # 0 /\ ~table[s].is_connected

\* C1 as stated: when a match has a Dll bot a and an Exe or Jar bot b, the
\* engine of a is spawned before every process of b
C1_DllFirst ==
    pc \notin {"start", "prepare", "sort"} =>
        \A a, b \in 1..NumBots :
            IsDll(a) /\ ~IsDll(b) =>
                \A y \in At(Bwapi(b)) \cup At(BotProc(b)) :
                    \E x \in At(Bwapi(a)) : x < y

\* C1, amended: the launch order places every Exe or Jar bot before every
\* Dll bot: when the engine of a Dll bot a is spawned, the engine and the bot
\* process of every Exe or Jar bot b of the match have been spawned before
C1_ClientsFirst ==
    pc \notin {"start", "prepare", "sort"} =>
        \A a, b \in 1..NumBots :
            IsDll(a) /\ ~IsDll(b) =>
                \A x \in At(Bwapi(a)) :
                    /\ \E y \in At(Bwapi(b)) : y < x
                    /\ \E y \in At(BotProc(b)) : y < x

\* a Dll bot's engine has been spawned after both processes of an Exe or Jar bot
C1_Witness ==
    /\ pc = "loop"
    /\ \E a, b \in 1..NumBots :
        /\ IsDll(a) /\ ~IsDll(b)
        /\ At(Bwapi(a)) # {} /\ At(Bwapi(b)) # {} /\ At(BotProc(b)) # {}

\* C2: the engine launches of one setup carry the host role exactly for the
\* first bot of the launch order of a match without a human host; every
\* other launch joins, so one launch hosts without a human host and none
\* with one
C2_OneHost ==
    LET E == EngineLaunches
        hosts == {n \in DOMAIN E : E[n].role = "Host"}
    IN  /\ \A n \in DOMAIN E :
            /\ E[n].proc = Bwapi(n)
            /\ E[n].role = IF n = 1 /\ ~cfg.human_host THEN "Host" ELSE "Join"
        /\ E # << >> => Cardinality(hosts) = IF cfg.human_host THEN 0 ELSE 1

\* two engines were launched in a match without a human host
C2_Witness ==
    /\ ~cfg.human_host
    /\ Len(EngineLaunches) = 2
    /\ EngineLaunches[1].role = "Host"
    /\ EngineLaunches[2].role = "Join"

\* C3: when a process of bot k has been spawned, every bot j before k in
\* the launch order has its engine spawned and, when it is an Exe or Jar
\* bot, its bot process spawned and both of its waits ended by a poll that
\* saw what the wait was for
C3_Serialized ==
    \A k \in 1..NumBots :
        At(Bwapi(k)) \cup At(BotProc(k)) # {} =>
            \A j \in 1..(k - 1) :
                /\ At(Bwapi(j)) # {}
                /\ ~IsDll(j) => /\ At(BotProc(j)) # {}
                                /\ j \in readySeen
                                /\ j \in connSeen
                /\ \A x \in At(Bwapi(j)) \cup At(BotProc(j)),
                      y \in At(Bwapi(k)) \cup At(BotProc(k)) : x < y

\* the engine of the second bot was spawned after an Exe or Jar bot
C3_Witness ==
    /\ NumBots >= 2
    /\ ~IsDll(1)
    /\ At(Bwapi(2)) # {}

\* C4: the process of an Exe or Jar bot is spawned only after its engine,
\* and after a poll of its readiness wait read a table with a free slot;
\* when the readiness wait runs out of polls, no such poll was made, setup has
\* failed and the bot process is not spawned
C4_ReadyBeforeBot ==
    /\ \A k \in 1..NumBots :
        /\ k \in readySeen => At(Bwapi(k)) # {}
        /\ \A y \in At(BotProc(k)) :
            /\ k \in readySeen
            /\ \E x \in At(Bwapi(k)) : x < y
    /\ error = "Server process not ready" =>
        /\ pc = "error"
        /\ i \notin readySeen
        /\ At(BotProc(i)) = {}
        /\ proc[BotProc(i)] = "none"

\* a bot process runs
C4_Witness ==
    \E k \in 1..NumBots : proc[BotProc(k)] = "running" /\ k \in readySeen

\* the connection wait of bot i - 1 has just returned Ok
JustConnected ==
    /\ pc = "loop"
    /\ i > 1
    /\ ~IsDll(i - 1)

\* C5 as stated: the poll that ends the connection wait with success read a
\* table in which the slot of this bot's engine is connected
C5_OwnSlotConnected ==
    JustConnected =>
        /\ snap # Unavailable
        /\ \E s \in 1..NumSlots :
            snap[s].server_process_id = i - 1 /\ snap[s].is_connected

\* C5, amended: the poll that ends the connection wait with success read a
\* table in which no non-empty slot is disconnected, so the slot of this
\* bot's engine is connected when it is in the table; the wait does not
\* look for that slot and can succeed when it is absent
C5_NoSlotDisconnected ==
    JustConnected =>
        /\ NoDisconnectedSlot(snap)
        /\ \A s \in 1..NumSlots :
            snap[s].server_process_id = i - 1 => snap[s].is_connected

\* a connection wait ended with the bot's own slot connected
C5_Witness ==
    /\ JustConnected
    /\ snap # Unavailable
    /\ snap[1] = GameInstance(i - 1, TRUE)

ReadyTimeout == "Server process not ready"
ConnTimeout ==
    "Bot client executable did not connect to BWAPI server (did you try to run a human hosted game without hosting it?)"
Died == {"BWAPI process died", "Bot process died"}

BothRunning(st) == st.bw = "None" /\ st.ch = "None"

\* the last poll a connection wait has, answered running by both status
\* queries and reading no filled table, ends the wait with the timeout error
C6_LastPollFails ==
    (pc = "conn_wait" /\ tries = RetryTake /\ BothRunning(status')
        /\ ~NoDisconnectedSlot(snap'))
    => (pc' = "error" /\ error' = ConnTimeout /\ instances' = instances /\ i' = i)

\* the timeout error comes from the last poll of a connection wait only
C6_OnlyLastPoll ==
    (error = None /\ error' = ConnTimeout) => (pc = "conn_wait" /\ tries = RetryTake)

\* C6: a connection wait whose polls are used up without one that read a
\* filled table, both processes reported running, ends with the timeout
\* error; setup has then failed, the bot is not recorded, and no recorded
\* bot process is one whose connection wait did not see the table filled
C6_Timeout ==
    /\ [](error = ConnTimeout =>
            /\ pc = "error"
            /\ i \notin connSeen
            /\ BothRunning(status)
            /\ ~NoDisconnectedSlot(snap)
            /\ \A n \in DOMAIN instances : instances[n].bwheadless # i)
    /\ [](\A n \in DOMAIN instances :
            instances[n].bot # 0 => instances[n].bot \in connSeen)
    /\ [][C6_LastPollFails /\ C6_OnlyLastPoll]_vars

\* a connection wait ended with the timeout error
C6_Witness ==
    /\ pc = "error"
    /\ error = ConnTimeout
    /\ proc[Bwapi(i)] = "running"
    /\ proc[BotProc(i)] = "running"

\* the poll of a connection wait at which the engine has ended
C7_EngineDied ==
    (pc = "conn_wait" /\ proc'[Bwapi(i)] = "exited")
    => (pc' = "error" /\ error' = "BWAPI process died")

\* the poll of a connection wait at which the engine runs and the bot has ended
C7_BotDied ==
    (pc = "conn_wait" /\ status'.bw = "None" /\ proc'[BotProc(i)] = "exited")
    => (pc' = "error" /\ error' = "Bot process died")

\* C7: the poll of a connection wait that finds the engine or the bot ended
\* ends the wait with the error of that process, which is not the timeout
\* error, and nothing is polled afterwards
C7_ProcessDied ==
    /\ [](error \in Died => pc = "error" /\ error # ConnTimeout /\ error # ReadyTimeout)
    /\ [][C7_EngineDied /\ C7_BotDied /\ (pc = "error" => UNCHANGED vars)]_vars

\* a connection wait ended because the engine had ended
C7_Witness ==
    /\ pc = "error"
    /\ error = "BWAPI process died"
    /\ proc[Bwapi(i)] = "exited"

\* a poll of a wait that read no table: the wait goes on with one delay
\* less, or is over because that was its last poll or a process has died
C8_UnavailablePoll ==
    (pc \in {"ready_wait", "conn_wait"} /\ unavail')
    => /\ pc' \in {pc, "error"}
       /\ pc' = pc => tries' = tries + 1 /\ error' = None
       /\ pc' = "error" => tries = RetryTake \/ error' \in Died

\* a poll that follows one that read no table and sees what the wait is for
C8_LaterPoll ==
    /\ (pc = "ready_wait" /\ unavail /\ i \in readySeen') => pc' = "spawn_bot"
    /\ (pc = "conn_wait" /\ unavail /\ i \in connSeen') => (pc' = "loop" /\ i' = i + 1)

\* C8: without a table both queries are false; a poll that read no table
\* never ends its wait with success and never with an error of its own, it
\* uses up one delay, and a later poll that sees what the wait is for ends
\* the wait with success
C8_Unavailable ==
    /\ [](~has_free_slot(Unavailable) /\ ~all_slots_filled(Unavailable))
    /\ [][C8_UnavailablePoll /\ C8_LaterPoll]_vars

\* a readiness wait goes on after a poll that read no table
C8_Witness ==
    /\ pc = "ready_wait"
    /\ unavail
    /\ tries > 0

\* C9: once a step of the setup of bot i has failed, main has returned the
\* error: no process of a later bot is spawned and the supervision loop is
\* not entered
C9_Abort ==
    /\ error # None =>
        /\ pc = "error"
        /\ \A k \in (i + 1)..MaxBots :
            /\ proc[Bwapi(k)] = "none" /\ proc[BotProc(k)] = "none"
            /\ At(Bwapi(k)) \cup At(BotProc(k)) = {}
        /\ \A n \in DOMAIN instances : instances[n].bwheadless < i
    /\ pc \in {"supervise", "done"} => error = None

\* the setup of a bot that is not the last one failed after its engine was spawned
C9_Witness ==
    /\ pc = "error"
    /\ i < NumBots
    /\ proc[Bwapi(i)] = "running"

\* C10: until the supervision loop runs no kill is sent; after a failed
\* setup every process spawned so far runs, unless the failing poll found it
\* ended
C10_NoKill ==
    pc \notin {"supervise", "done"} =>
        /\ kills = {}
        /\ pc = "error" =>
            \A x \in DOMAIN spawned :
                \/ proc[spawned[x].proc] = "running"
                \/ /\ proc[spawned[x].proc] = "exited"
                   /\ spawned[x].proc[2] = i
                   /\ error \in Died

\* the setup of the second bot failed with three processes spawned
C10_Witness ==
    /\ pc = "error"
    /\ i = 2
    /\ Len(spawned) >= 3
    /\ \A x \in DOMAIN spawned : proc[spawned[x].proc] = "running"

\* the bots recorded in the instance set
Recorded == {instances[n].bwheadless : n \in DOMAIN instances}

\* C11: a supervision pass that sees the engine of a recorded instance ended
\* removes the instance and sends a kill to its bot process, when it has
\* one, in that pass; it removes no other instance and kills no other process
C11_KillAndRemove ==
    /\ \A k \in exitSeen :
        /\ k \notin Recorded
        /\ proc[Bwapi(k)] = "exited"
        /\ ~IsDll(k) => BotProc(k) \in kills
    /\ kills \subseteq {BotProc(k) : k \in exitSeen}
    /\ pc \in {"supervise", "done"} => Recorded \cup exitSeen = 1..NumBots

\* a pass saw the engine of a bot with a bot process ended while another
\* instance stays recorded
C11_Witness ==
    /\ pc = "supervise"
    /\ instances # << >>
    /\ \E k \in exitSeen : ~IsDll(k) /\ BotProc(k) \in kills

\* the engine of every recorded instance has ended
RecordedEnginesEnded == \A k \in Recorded : proc[Bwapi(k)] = "exited"

\* C12: main returns Ok from the supervision loop only with an empty
\* instance set, so never while the engine of a recorded instance runs; and
\* once the engines of all recorded instances have ended, the set drains and
\* the run ends with success
C12_ReturnsWhenDrained ==
    /\ [](pc = "done" =>
            /\ instances = << >>
            /\ error = None
            /\ \A k \in 1..NumBots : proc[Bwapi(k)] = "exited")
    /\ [][pc' = "done" => (pc = "done" \/ (pc = "supervise" /\ instances = << >>))]_vars
    /\ [](pc = "supervise" /\ instances # << >> => ENABLED SuperviseTick /\ ~ENABLED Finish)
    /\ (pc = "supervise" /\ RecordedEnginesEnded) ~> (pc = "done" /\ instances = << >> /\ error = None)

\* the run of a match of two bots ended with success
C12_Witness ==
    /\ pc = "done"
    /\ NumBots = MaxBots
    /\ exitSeen = 1..NumBots

\* a match of two bots, one in-process (Dll) and one with a process of its own
MixedPair == NumBots = 2 /\ \E a, b \in 1..NumBots : IsDll(a) /\ ~IsDll(b)

\* C13 as stated: in a supervised match of a Dll bot a and an Exe or Jar bot
\* b, once the engine of a has ended the bot process of b is killed and the
\* instance set becomes empty, whatever the engine of b does
C13_HostExitDrains ==
    (pc = "supervise" /\ MixedPair /\ \E a \in 1..NumBots : IsDll(a) /\ proc[Bwapi(a)] = "exited")
    ~> (instances = << >> /\ \E b \in 1..NumBots : ~IsDll(b) /\ BotProc(b) \in kills)

\* C13, amended: in a supervised match of a Dll bot a and an Exe or Jar bot
\* b, a pass that sees the engine of a ended removes the instance of a only;
\* the bot process of b is killed, and the instance of b removed, by the pass
\* that sees the engine of b itself ended; the set is empty once both engines
\* were seen ended
C13_OwnEngineExitKills ==
    (pc \in {"supervise", "done"} /\ MixedPair) =>
        \A a, b \in 1..NumBots :
            IsDll(a) /\ ~IsDll(b) =>
                /\ a \in exitSeen <=> a \notin Recorded
                /\ b \in exitSeen <=> b \notin Recorded
                /\ b \in exitSeen <=> BotProc(b) \in kills
                /\ proc[Bwapi(b)] = "running" => b \in Recorded /\ BotProc(b) \notin kills
                /\ (a \in exitSeen /\ b \in exitSeen) <=> instances = << >>

\* the engine of the Dll bot was seen ended while the engine of the other bot
\* runs: the other bot stays recorded and its process was not killed
C13_Witness ==
    /\ pc = "supervise"
    /\ MixedPair
    /\ \E a, b \in 1..NumBots :
        /\ IsDll(a) /\ ~IsDll(b)
        /\ a \in exitSeen
        /\ proc[Bwapi(b)] = "running"
        /\ Len(instances) = 1
        /\ BotProc(b) \notin kills

\* a match of two bots, one Dll and one Exe or Jar, without a human host,
\* whose launch loop has begun
BotHostedPair == MixedPair /\ ~cfg.human_host /\ pc \notin {"start", "prepare", "sort"}

\* C14 as stated: in a bot-hosted match of a Dll bot a and an Exe or Jar bot
\* b, the engine of a is launched as host with the map and a player count of
\* 2, the engine of b is launched to join
C14_DllHosts ==
    BotHostedPair =>
        \A a, b \in 1..NumBots :
            IsDll(a) /\ ~IsDll(b) =>
                /\ \A x \in At(Bwapi(a)) :
                    /\ spawned[x].role = "Host"
                    /\ spawned[x].args = [map |-> TRUE, player_count |-> 2]
                /\ \A x \in At(Bwapi(b)) : spawned[x].role = "Join"

\* C14, amended: in a bot-hosted match of a Dll bot a and an Exe or Jar bot
\* b, the engine of b is launched first and as host, with the configured map
\* and a player count of 2; the engine of a is launched to join, without map
\* and player count
C14_ClientHosts ==
    BotHostedPair =>
        \A a, b \in 1..NumBots :
            IsDll(a) /\ ~IsDll(b) =>
                /\ cfg.map
                /\ \A x \in At(Bwapi(b)) :
                    /\ x = 1
                    /\ spawned[x].role = "Host"
                    /\ spawned[x].args = [map |-> TRUE, player_count |-> 2]
                /\ \A x \in At(Bwapi(a)) :
                    /\ spawned[x].role = "Join"
                    /\ spawned[x].args = [map |-> FALSE, player_count |-> 0]

\* both engines of such a match have been launched
C14_Witness ==
    /\ BotHostedPair
    /\ \E a, b \in 1..NumBots :
        /\ IsDll(a) /\ ~IsDll(b)
        /\ At(Bwapi(a)) # {} /\ At(Bwapi(b)) # {}

\* the kind an extension stands for, whatever the case of its letters
ExtKind(ext) ==
    CASE ext \in {<<"d", "l", "l">>, <<"D", "L", "L">>} -> "Dll"
      [] ext = <<"j", "a", "r">> -> "Jar"
      [] ext \in {<<"e", "x", "e">>, <<"E", "x", "e">>} -> "Exe"
      [] OTHER -> "None"

\* the positions of the folder's entries of these kinds
EntriesOf(kinds) == {k \in DOMAIN dir : ExtKind(dir[k].ext) \in kinds}
Classifiable == EntriesOf({"Dll", "Jar", "Exe"})

\* the entry at position k as the binary of its kind
BinaryAt(k) == [kind |-> ExtKind(dir[k].ext), file |-> dir[k].file]

\* the search of the folder has returned
Searched == scanned /\ bot_binary # Pending

\* C15: the search of a folder with exactly one entry of extension dll, jar
\* or exe returns that entry with the kind of its extension, whatever other
\* entries there are; the search of a folder without such an entry fails
\* with the not-found error
C15_SingleCandidate ==
    Searched =>
        /\ Cardinality(Classifiable) = 1 =>
            \E k \in Classifiable : bot_binary = ResultOk(BinaryAt(k))
        /\ Classifiable = {} => bot_binary = ResultErr(NotFound)

\* the search of a folder of three entries, one of them a binary, has
\* returned it
C15_Witness ==
    /\ Searched
    /\ Len(dir) = 3
    /\ Cardinality(Classifiable) = 1
    /\ bot_binary.tag = "Ok"

\* C16 as stated: the search of a folder with exactly one exe entry, and
\* any dll and jar entries besides, returns the exe entry in whatever order
\* the entries are read
C16_ExeWins ==
    (Searched /\ Cardinality(EntriesOf({"Exe"})) = 1) =>
        \E k \in EntriesOf({"Exe"}) : bot_binary = ResultOk(BinaryAt(k))

\* C17 as stated: the search of a folder with two or more entries of one
\* kind fails with the ambiguity error, whatever else the folder holds and
\* in whatever order the entries are read
C17_DuplicatesRejected ==
    (Searched /\ \E kind \in {"Dll", "Jar", "Exe"} : Cardinality(EntriesOf({kind})) >= 2) =>
        bot_binary = ResultErr(Ambiguous)

\* the folder's binaries are one dll and one jar
OneDllOneJar ==
    /\ Cardinality(EntriesOf({"Dll"})) = 1
    /\ Cardinality(EntriesOf({"Jar"})) = 1
    /\ EntriesOf({"Exe"}) = {}

\* C18 as stated: the search of a folder whose binaries are one dll and one
\* jar returns the dll
C18_DllBeatsJar ==
    (Searched /\ OneDllOneJar) =>
        \E k \in EntriesOf({"Dll"}) : bot_binary = ResultOk(BinaryAt(k))

\* C18, amended: the search of a folder whose binaries are one dll and one
\* jar returns the dll when the dll is read before the jar, and fails with
\* the ambiguity error when the jar is read first
C18_DllFirstWins ==
    (Searched /\ OneDllOneJar) =>
        \A d \in EntriesOf({"Dll"}), j \in EntriesOf({"Jar"}) :
            /\ d < j => bot_binary = ResultOk(BinaryAt(d))
            /\ j < d => bot_binary = ResultErr(Ambiguous)

\* the search of a folder that holds a dll, read first, and a jar has
\* returned the dll
C18_Witness ==
    /\ Searched
    /\ OneDllOneJar
    /\ \E d \in EntriesOf({"Dll"}), j \in EntriesOf({"Jar"}) : d < j
    /\ bot_binary.tag = "Ok"
    /\ bot_binary.binary.kind = "Dll"

\* the folder's entries read in another order
Reordered(order) == [k \in DOMAIN dir |-> dir[order[k]]]

\* C19 as stated: the outcome of the search (the file returned, or the error)
\* is the same for every order in which the entries of the folder are read
C19_OrderIndependent ==
    Searched =>
        \A order \in Permutations(DOMAIN dir) : search(Reordered(order)) = bot_binary

\* the definition names an executable and the binary is resolved
OverrideGiven == executable # NoOverride /\ bot_binary # Pending

\* the binary the extension of the named executable stands for
OverrideKind == ExtKind(executable)

\* C20 as stated: when the definition names an executable the folder is
\* never read, whether the extension of the name is one of a binary or not,
\* and a name with the extension of a binary is taken without a look at the
\* file
C20_OverrideNeverScans ==
    OverrideGiven =>
        /\ ~scanned
        /\ OverrideKind # "None" =>
            bot_binary = ResultOk([kind |-> OverrideKind, file |-> OverrideFile])

\* C20, amended: when the definition names an executable whose extension is
\* one of a binary, the folder is not read and the binary is the named path
\* with the kind of its extension, without a look at the file; when the
\* extension is none of a binary the name is dropped and the folder is
\* searched as without a name
C20_ClassifiableOverrideWins ==
    OverrideGiven =>
        /\ OverrideKind # "None" =>
            /\ ~scanned
            /\ bot_binary = ResultOk([kind |-> OverrideKind, file |-> OverrideFile])
        /\ OverrideKind = "None" =>
            /\ scanned
            /\ bot_binary = search(dir)
            /\ bot_binary.binary.file # OverrideFile \/ bot_binary.tag = "Err"

\* a named jar was taken while the folder holds two binaries
C20_Witness ==
    /\ OverrideGiven
    /\ OverrideKind = "Jar"
    /\ Cardinality(Classifiable) = 2
    /\ ~scanned
    /\ bot_binary.tag = "Ok"

\* the latest call of get_game_table returned and the region is as it was
\* at that call
Returned == last.called /\ ~last.out.panic
ReturnedNow == Returned /\ fresh

\* C21: a call of get_game_table made while the region does not exist (and
\* the helper of a non-windows build can be run) returns None, leaves the
\* reader without a handle and has tried to open the region, as every call
\* of a reader without a handle does; a call made once the region exists
\* returns a table; on windows no call fails
C21_AbsentRegion ==
    /\ (ReturnedNow /\ shmem = Absent) =>
        /\ last.out.table = Unavailable
        /\ ~last.out.game_table /\ ~game_table
        /\ last.out.opened
    /\ (Returned /\ ~last.before) => last.out.opened
    /\ (ReturnedNow /\ shmem # Absent) => last.out.table # Unavailable
    /\ windows => ~last.out.panic

\* a reader without a handle has called once the region exists, after it
\* had changed, and got the table with an owned slot
C21_Witness ==
    /\ ReturnedNow
    /\ windows
    /\ ~last.before
    /\ last.changed
    /\ last.out.table # Unavailable
    /\ AnyFreeSlot(last.out.table)

\* C22 as stated: a call of the delegate made with a handle opens nothing,
\* keeps the handle and returns the table the region holds at the call, also
\* when the region has changed since the call before
C22_FreshCopy ==
    (windows /\ Returned /\ last.before) =>
        /\ ~last.out.opened
        /\ game_table /\ last.out.game_table
        /\ shmem # Absent
        /\ fresh => last.out.table = shmem

\* the last call copied every field of every slot as a store of an engine
\* leaves it: the process id none or that of the engine, no keep-alive time,
\* and nothing in a slot no engine writes
CopiedFields ==
    \A s \in 1..NumSlots :
        /\ last.out.table[s].server_process_id \in { 0, ReaderPid }
        /\ last.out.table[s].last_keep_alive_time = 0
        /\ s \notin WrittenSlots => last.out.table[s] = EmptyInstance

\* C22, amended: a call of the delegate made with a handle opens nothing and
\* keeps the handle; it copies the region during the call and from no
\* earlier call, so that what was written between two calls is in the
\* second snapshot: a call no store of another process runs into returns
\* the table the region holds; a call stores run into returns fields the
\* stores left, and a slot written then can come back as a slot the region
\* never held
C22_CopiedAtCall ==
    (windows /\ Returned /\ last.before) =>
        /\ ~last.out.opened
        /\ game_table /\ last.out.game_table
        /\ shmem # Absent
        /\ last.out.table # Unavailable
        /\ CopiedFields
        /\ (fresh /\ ~last.raced) => last.out.table = shmem

\* a reader with a handle has called after the region had changed, while the
\* first slot was released and the last one taken, and got a table in which
\* both slots are owned
C22_Witness ==
    /\ windows
    /\ ReturnedNow
    /\ last.before
    /\ last.changed
    /\ last.raced
    /\ last.out.table[1].server_process_id # 0
    /\ last.out.table[NumSlots].server_process_id # 0
    /\ shmem[1] = EmptyInstance

\* the slots of a snapshot that have an owner: none when there is no table
Occupied(table) ==
    IF table = Unavailable THEN {}
    ELSE {s \in 1..NumSlots : table[s].server_process_id # 0}

\* C23: has_free_slot is true of the value a call returned exactly when the
\* value is a table and one of its 8 slots has an owner and is not connected
C23_FreeSlot ==
    Returned =>
        (last.free <=>
            /\ last.out.table # Unavailable
            /\ \E s \in 1..NumSlots :
                /\ last.out.table[s].server_process_id # 0
                /\ last.out.table[s].is_connected = FALSE)

\* a call returned a table whose only disconnected owned slot is not the first
C23_Witness ==
    /\ Returned
    /\ last.free
    /\ \A s \in Occupied(last.out.table) : s # 1

\* C24 as stated: all_slots_filled is true of the value a call returned
\* exactly when every slot with an owner is connected, a value without a
\* table having no such slot
C24_AllConnected ==
    Returned =>
        (last.filled <=>
            \A s \in Occupied(last.out.table) : last.out.table[s].is_connected)

\* C24, amended: all_slots_filled is true of the value a call returned
\* exactly when the value is a table and every slot of it with an owner is
\* connected, so it is true of a table without an owned slot and false when
\* no table was read
C24_AvailableAllConnected ==
    Returned =>
        /\ last.filled <=>
            /\ last.out.table # Unavailable
            /\ \A s \in Occupied(last.out.table) : last.out.table[s].is_connected
        /\ (last.out.table # Unavailable /\ Occupied(last.out.table) = {})
                => last.filled
        /\ last.out.table = Unavailable => ~last.filled

\* a call returned a table without an owned slot
C24_Witness ==
    /\ Returned
    /\ last.out.table # Unavailable
    /\ Occupied(last.out.table) = {}
    /\ last.filled

\* build_command has returned a command
Built == build.step = "done" /\ build.result.ok

\* the configuration file of a bot folder
ConfigFileOf(folder) == [base |-> folder.base, rel |-> << "bwapi-data", "bwapi.ini" >>]

\* the name of a folder is Unicode text
IsUnicode(folder) == \A k \in DOMAIN folder.base : folder.base[k] # 255

\* C25: a command returned by either strategy has the folder of the bot as
\* its working directory and has in BWAPI_CONFIG_INI the path, as a string,
\* of <bot folder>/bwapi-data/bwapi.ini, which is the file the call has
\* written; when the folder name is Unicode text the string is that path
C25_SameConfigAndFolder ==
    Built =>
        /\ build.wrote = ConfigFileOf(build.bot_base_path)
        /\ build.bwapi_ini.state = "written"
        /\ build.result.cmd.env.BWAPI_CONFIG_INI = to_string_lossy(build.wrote)
        /\ IsUnicode(build.bot_base_path)
                => build.result.cmd.env.BWAPI_CONFIG_INI = build.wrote
        /\ build.result.cmd.current_dir = build.bot_base_path

\* the injected launch of a host has returned its command, the configuration
\* file of the folder overwritten
C25_Witness ==
    /\ Built
    /\ build.strategy = "Injectory"
    /\ build.connect_mode.kind = "Host"
    /\ build.ini0 = IniOld
    /\ IsUnicode(build.bot_base_path)

\* the errors of build_command that name a missing file: those of the four
\* ensure! at its head, and that of the map
HeadFiles == { "StarCraft.exe", "bwapi-data", "BWAPI.dll", "tool" }
HeadMissing ==
    { "Could not find 'StarCraft.exe'",
      "Missing '{}' - please read the instructions on how to setup a bot.",
      "Could not find '{}'",
      "Could not find '{}'. Please make sure to extract all files, or check your antivirus software." }
MissingFile == HeadMissing \cup { MapMissing }

\* C26 as stated: when build_command returns an error about a missing file,
\* the configuration file is as it was before the call
C26_ErrorBeforeConfig ==
    (build.step = "done" /\ ~build.result.ok /\ build.result.err \in MissingFile) =>
        build.bwapi_ini = build.ini0

\* C26, amended: a call for which StarCraft.exe, bwapi-data, BWAPI.dll or the
\* launcher tool is missing returns the error of the first of them and leaves
\* the configuration file as it was; the error of a missing map is returned
\* by the injected launch of a host only, after the call has written the
\* configuration file
C26_HeadErrorsBeforeConfig ==
    build.step = "done" =>
        /\ ~(HeadFiles \subseteq build.exists) =>
            /\ ~build.result.ok
            /\ build.result.err \in HeadMissing
        /\ (~build.result.ok /\ build.result.err \in HeadMissing) =>
            /\ build.bwapi_ini = build.ini0
            /\ ~build.copied
        /\ (~build.result.ok /\ build.result.err = MapMissing) =>
            /\ build.strategy = "Injectory"
            /\ build.connect_mode.kind = "Host"
            /\ "map" \notin build.exists
            /\ build.bwapi_ini.state = "written"
            /\ build.bwapi_ini # build.ini0

\* a call without the launcher tool, the last file looked for, has returned
\* its error with the configuration file of an earlier run in place
C26_Witness ==
    /\ build.step = "done"
    /\ ~build.result.ok
    /\ build.exists = RequiredFiles \ { "tool" }
    /\ build.ini0 = IniOld
    /\ build.bwapi_ini = IniOld

\* the checksum of a BWAPI.dll has been looked up
Detected == detect.step = "done" /\ detect.readable

\* C27: from_u32 gives Bwapi440 for 0x71CB208B, Bwapi420 for 0xD1E0DDDF,
\* Bwapi412 for 0x267BD0D5, Bwapi375 for both 0x4E39C88A and 0x41128276, and
\* None for every other 32-bit value; version_short of two different
\* versions is different
C27_ChecksumTable ==
    /\ Detected =>
        /\ detect.crc \in U32
        /\ detect.crc = << 29131, 8331 >> => detect.bwapi_version = "Bwapi440"
        /\ detect.crc = << 53728, 56799 >> => detect.bwapi_version = "Bwapi420"
        /\ detect.crc = << 9851, 53461 >> => detect.bwapi_version = "Bwapi412"
        /\ detect.crc \in { << 20025, 51338 >>, << 16658, 33398 >> } => detect.bwapi_version = "Bwapi375"
        /\ detect.crc \notin KnownCrcs => detect.bwapi_version = None
    /\ \A v, w \in BwapiVersions : v # w => version_short(v) # version_short(w)

\* the second checksum of 3.7.x has been looked up, for a bot with the
\* default tournament module
C27_Witness ==
    /\ Detected
    /\ detect.crc = << 16658, 33398 >>
    /\ detect.bwapi_version = "Bwapi375"
    /\ detect.result = DetectOk(<< "tm", "375" >>)

\* the readiness wait of bot i has just returned Ok
ReadySucceeded == pc = "spawn_bot"

\* C28 as stated: the poll that ends the readiness wait of a bot with
\* success read a table in which a slot of the engine just spawned for this
\* bot is not connected
C28_OwnSlotFree ==
    ReadySucceeded =>
        /\ snap # Unavailable
        /\ \E s \in 1..NumSlots :
            snap[s].server_process_id = i /\ ~snap[s].is_connected

\* C28, amended: the poll that ends the readiness wait of a bot with success
\* was made after the engine of the bot was spawned and read a table in
\* which some non-empty slot is not connected; the wait does not look at the
\* owner of the slot, so the slot of a process that is no part of the match
\* ends it as well, before the engine of the bot is in the table
C28_SomeSlotFree ==
    ReadySucceeded =>
        /\ At(Bwapi(i)) # {}
        /\ i \in readySeen
        /\ SomeDisconnectedSlot(snap)

\* a readiness wait ended on the disconnected slot of the bot's own engine
C28_Witness ==
    /\ ReadySucceeded
    /\ snap # Unavailable
    /\ snap[1] = GameInstance(i, FALSE)
    /\ snap[NumSlots] = EmptyInstance

\* the instance recorded for bot k, if any
InstancesOf(k) == {n \in DOMAIN instances : instances[n].bwheadless = k}

\* C29: for a Dll bot no readiness wait and no connection wait is run, so no
\* table is polled, and no bot process is spawned; once its engine is
\* spawned the bot is recorded with no bot handle, in the same step, unless
\* the creation of the log files of the bot has failed and ended main
C29_DllRecordedAtOnce ==
    /\ pc \in {"ready_wait", "spawn_bot", "conn_wait"} => ~IsDll(i)
    /\ \A k \in 1..NumBots :
        (IsDll(k) /\ At(Bwapi(k)) # {}) =>
            /\ At(BotProc(k)) = {}
            /\ proc[BotProc(k)] = "none"
            /\ k \notin readySeen /\ k \notin connSeen
            /\ \A n \in InstancesOf(k) : instances[n].bot = 0
            /\ \/ InstancesOf(k) # {}
               \/ k \in exitSeen
               \/ pc = "error" /\ error = "File::create" /\ i = k

\* the engine of a Dll bot has just been spawned: the bot is recorded, the
\* loop is at the next bot and no table has been read since
C29_Witness ==
    /\ pc = "loop"
    /\ i > 1
    /\ IsDll(i - 1)
    /\ InstancesOf(i - 1) # {}
    /\ snap = Unavailable

\* C30: an instance with a bot process is in the set only when a poll of
\* the connection wait of that bot has succeeded; no bot has two instances;
\* and when the supervision loop starts, before a pass has removed an
\* instance, the set holds one instance of every configured bot: with no bot
\* handle for a Dll bot, with the bot process for every other
C30_OneInstancePerBot ==
    /\ \A n \in DOMAIN instances :
        instances[n].bot # 0 =>
            /\ instances[n].bot = instances[n].bwheadless
            /\ instances[n].bwheadless \in connSeen
            /\ At(BotProc(instances[n].bot)) # {}
    /\ \A k \in 1..NumBots : Cardinality(InstancesOf(k)) <= 1
    /\ (pc = "supervise" /\ exitSeen = {}) =>
        /\ Len(instances) = NumBots
        /\ \A k \in 1..NumBots :
            /\ Cardinality(InstancesOf(k)) = 1
            /\ \A n \in InstancesOf(k) : instances[n].bot = IF IsDll(k) THEN 0 ELSE k

\* the supervision loop starts over a match of MaxBots bots, one of them
\* with a bot process
C30_Witness ==
    /\ pc = "supervise"
    /\ exitSeen = {}
    /\ NumBots = MaxBots
    /\ Len(instances) = MaxBots
    /\ \E n \in DOMAIN instances : instances[n].bot # 0

\* C31: a poll of the connection wait reads the table, then queries the
\* engine and, when the engine runs, the bot.  A query of the engine that
\* does not report it running ends the wait with the engine's error, the bot
\* not queried; a query of the bot that does not report it running ends it
\* with the bot's error; either way whatever the table read shows.  The wait
\* succeeds only on a filled table with both processes reported running, and
\* goes on only when both were reported running and the table was not filled
C31_DeathBeforeTable ==
    /\ error = "BWAPI process died" =>
        /\ status.bw \in {"Some", "Err"}
        /\ status.ch = "NotCalled"
    /\ error = "Bot process died" =>
        /\ status.bw = "None"
        /\ status.ch \in {"Some", "Err"}
    /\ JustConnected =>
        /\ BothRunning(status)
        /\ status.filled
        /\ all_slots_filled(snap)
    /\ (pc = "conn_wait" /\ tries > 0) =>
        /\ BothRunning(status)
        /\ i \notin connSeen
        /\ proc[Bwapi(i)] = "running" /\ proc[BotProc(i)] = "running"

\* a connection wait ended with the bot's error by a poll that read a
\* filled table
C31_Witness ==
    /\ pc = "error"
    /\ error = "Bot process died"
    /\ proc[BotProc(i)] = "exited"
    /\ status.filled

\* C32: every kill the supervisor sends goes to a bot process, never to an
\* engine, and only to the bot process of an instance whose own engine a
\* pass has seen ended; an instance whose engine runs stays in the set, also
\* when its bot process has ended
C32_OnlyOrphanedBots ==
    /\ \A p \in kills :
        /\ p[1] = "bot"
        /\ p[2] \in exitSeen
        /\ proc[Bwapi(p[2])] = "exited"
    /\ pc = "supervise" =>
        \A k \in 1..NumBots :
            proc[Bwapi(k)] = "running" =>
                /\ InstancesOf(k) # {}
                /\ BotProc(k) \notin kills
                /\ k \notin exitSeen

\* the bot process of a recorded instance has ended by itself, its engine
\* runs, and a pass has removed another instance since
C32_Witness ==
    /\ pc = "supervise"
    /\ exitSeen # {}
    /\ \E k \in 1..NumBots :
        /\ proc[BotProc(k)] = "exited"
        /\ proc[Bwapi(k)] = "running"
        /\ InstancesOf(k) # {}
        /\ BotProc(k) \notin kills

\* the positions of main during setup, and how far setup has got: the bot
\* it is at, the step of that bot, the delays its wait has used
SetupPcs == {"start", "prepare", "sort", "loop", "ready_wait", "spawn_bot", "conn_wait"}
StepOf(p) ==
    CASE p = "loop" -> 0
      [] p = "ready_wait" -> 1
      [] p = "spawn_bot" -> 2
      [] p = "conn_wait" -> 3
      [] OTHER -> 0
Progress ==
    IF pc = "start" THEN 0
    ELSE IF pc = "prepare" THEN 1
    ELSE IF pc = "sort" THEN 2
    ELSE 3 + (i * 4 + StepOf(pc)) * (RetryTake + 1) + tries

\* every step of setup gets further or leaves setup
C33_StepAdvances ==
    pc \in SetupPcs => (pc' \in {"error", "supervise"} \/ Progress' > Progress)

\* C33: a wait has used at most RetryTake delays when it polls, so it polls
\* at most RetryTake + 1 times; a readiness wait ends with success or its
\* timeout error, a connection wait with success, a process-died error or its
\* timeout error (and, on a build that is not for windows, either with the
\* panic of a table read that cannot run its helper); every step of setup
\* raises a bounded measure or leaves setup, so setup takes finitely many
\* steps whatever the tables read hold
C33_BoundedWaits ==
    /\ [](/\ tries \in 0..RetryTake
          /\ pc \notin {"ready_wait", "conn_wait"} => tries = 0
          /\ Progress <= 3 + ((MaxBots + 1) * 4 + 3) * (RetryTake + 1) + RetryTake
          /\ error = "panic" => ~windows
          /\ error = ReadyTimeout => i \notin readySeen
          /\ error = ConnTimeout => i \notin connSeen)
    /\ [][/\ C33_StepAdvances
          /\ pc = "ready_wait" =>
                \/ pc' = "ready_wait" /\ tries' = tries + 1
                \/ pc' = "spawn_bot"
                \/ pc' = "error" /\ error' \in {ReadyTimeout, "panic"}
          /\ pc = "conn_wait" =>
                \/ pc' = "conn_wait" /\ tries' = tries + 1
                \/ pc' = "loop" /\ i' = i + 1
                \/ pc' = "error" /\ error' \in Died \cup {ConnTimeout, "panic"}]_vars

\* a connection wait is at its last poll, RetryTake delays used by polls that
\* all called for a retry
C33_Witness ==
    /\ pc = "conn_wait"
    /\ tries = RetryTake
    /\ i = NumBots

\* the keys of the [auto_menu] lines of a configuration file and the values
\* written for a key
MenuKeys(ini) == { ini.auto_menu[n][1] : n \in DOMAIN ini.auto_menu }
MenuValues(ini, key) ==
    { ini.auto_menu[n][2] : n \in { m \in DOMAIN ini.auto_menu : ini.auto_menu[m][1] = key } }

\* an injected launch has written its configuration file
InjectedWritten == build.strategy = "Injectory" /\ build.bwapi_ini.state = "written"

\* C34: in the configuration file an injected launch has written, the
\* auto-menu lines of a host have wait_for_min_players and
\* wait_for_max_players, both the number of bots of the match, the map when
\* one is configured and no game line; those of a joiner have game, the game
\* name of the launch, and no map and no player bounds
C34_AutoMenu ==
    InjectedWritten =>
        /\ build.connect_mode.kind = "Host" =>
            /\ MenuValues(build.bwapi_ini, "wait_for_min_players") = { build.bots }
            /\ MenuValues(build.bwapi_ini, "wait_for_max_players") = { build.bots }
            /\ "game" \notin MenuKeys(build.bwapi_ini)
            /\ IF build.connect_mode.map # None
               THEN MenuValues(build.bwapi_ini, "map") = { build.connect_mode.map }
               ELSE "map" \notin MenuKeys(build.bwapi_ini)
        /\ build.connect_mode.kind = "Join" =>
            /\ MenuValues(build.bwapi_ini, "game") = { build.game_name }
            /\ MenuKeys(build.bwapi_ini) \cap
                    { "map", "wait_for_min_players", "wait_for_max_players" } = {}

\* the injected launch of the host of a match of MaxBots bots with a map has
\* returned its command
C34_Witness ==
    /\ InjectedWritten
    /\ Built
    /\ build.connect_mode.kind = "Host"
    /\ build.connect_mode.map # None
    /\ build.bots = MaxBots

\* an entry whose extension is dll, jar or exe in some case of its letters,
\* and the folder without its other entries
IsBinaryEntry(entry) == ExtKind(entry.ext) # "None"
BinariesOnly == SelectSeq(dir, IsBinaryEntry)

\* two extensions are the same but for the case of their letters
SameButCase(x, y) ==
    /\ Len(x) = Len(y)
    /\ \A k \in DOMAIN x :
        \/ x[k] = y[k]
        \/ \E n \in DOMAIN UpperCase : {x[k], y[k]} = {UpperCase[n], LowerCase[n]}

\* C35: the search of a folder returns what the search of the folder without
\* the entries whose extension is not dll, jar or exe (or that have none)
\* returns; an entry is classified by its extension alone, in lower case:
\* entries whose extensions are the same but for the case of their letters
\* get the same kind, which is that of the extension
C35_ExtensionOnly ==
    Searched =>
        /\ bot_binary = search(BinariesOnly)
        /\ \A a, b \in DOMAIN dir :
            SameButCase(dir[a].ext, dir[b].ext) =>
                from_path(dir[a].file, dir[a].ext).kind = from_path(dir[b].file, dir[b].ext).kind
        /\ \A a \in DOMAIN dir : from_path(dir[a].file, dir[a].ext).kind = ExtKind(dir[a].ext)

\* the search of a folder with an entry that is no binary and one of
\* extension Exe has returned the latter
C35_Witness ==
    /\ Searched
    /\ bot_binary.tag = "Ok"
    /\ \E k \in DOMAIN dir :
        /\ dir[k].ext = <<"E", "x", "e">>
        /\ bot_binary.binary = [kind |-> "Exe", file |-> dir[k].file]
    /\ \E j \in DOMAIN dir : ~IsBinaryEntry(dir[j])
    /\ BinariesOnly # dir

\* the game name the host launch of a bot-hosted match leaves in effect
HostName ==
    LET h == naming.bots[1]
    IN  IF h.headful
        THEN (IF h.supports_character_name THEN h.name ELSE "BWAPI")
        ELSE (IF naming.configured = None THEN "shotgun" ELSE naming.configured)

\* the game names a launch passes on: after -g, or as the game= entry
NamesOf(l) ==
    { l.args[n][2] : n \in { m \in DOMAIN l.args : l.args[m][1] = "-g" } }
    \cup { l.auto_menu[n][2] : n \in { m \in DOMAIN l.auto_menu : l.auto_menu[m][1] = "game" } }

\* C36: in a bot-hosted match the first launch is the host launch and fixes
\* the game name: the host's player name (BWAPI if its version takes no
\* character name) for a headful host, the configured name (default shotgun)
\* for a headless one; the loop's game name stays that one, and every later
\* launch is a join that passes exactly that name (-g, or game=)
C36_NameFixedByHost ==
    (~naming.human_host /\ Len(naming.launches) >= 1) =>
        /\ naming.launches[1].connect_mode = "Host"
        /\ naming.game_name = HostName
        /\ ~naming.bots[1].headful => NamesOf(naming.launches[1]) = { HostName }
        /\ \A n \in 2..Len(naming.launches) :
              /\ naming.launches[n].connect_mode = "Join"
              /\ naming.launches[n].game_name = HostName
              /\ NamesOf(naming.launches[n]) = { HostName }

\* a headful host of an old version and a headful joiner of another name that
\* would have renamed the game
C36_Witness ==
    /\ naming.step = "done"
    /\ ~naming.human_host
    /\ Len(naming.launches) = 2
    /\ naming.bots[2].headful
    /\ naming.bots[2].supports_character_name
    /\ naming.bots[2].name = "B"
    /\ naming.bots[1].name = "A"
    /\ naming.bots[1].headful
    /\ ~naming.bots[1].supports_character_name
    /\ NamesOf(naming.launches[2]) = { "BWAPI" }

\* how often a pass queried the engine of bot k
TimesChecked(pass, k) == Cardinality({ m \in DOMAIN pass.checked : pass.checked[m] = k })

Range(s) == { s[n] : n \in DOMAIN s }

\* C37: whatever the status queries of one supervision pass answer, the pass
\* never indexes instances out of bounds, queries the engine of every instance
\* that was there at its start exactly once, and removes only instances whose
\* engine it saw exited
C37_EachCheckedOnce ==
    pc = "supervise" =>
        \A obs \in Observations :
            LET pass == SupervisePass(instances, Len(instances), obs, {})
            IN  /\ ~pass.panic
                /\ Len(pass.checked) = Len(instances)
                /\ \A n \in DOMAIN instances : TimesChecked(pass, instances[n].bwheadless) = 1
                /\ Range(pass.instances) \subseteq Range(instances)
                /\ \A n \in DOMAIN instances :
                      instances[n] \notin Range(pass.instances) =>
                          obs[instances[n].bwheadless] = "Some"

\* a pass has removed the first instance of two and moved the last one,
\* whose engine still runs, into its place
C37_Witness ==
    /\ pc = "supervise"
    /\ NumBots = 2
    /\ exitSeen = {1}
    /\ Len(instances) = 1
    /\ instances[1].bwheadless = 2
    /\ proc[Bwapi(2)] = "running"

\* C38: a supervision pass removes an instance, and kills its bot process,
\* exactly when the status query of its engine gave an exit status: after a
\* failing query, as after one that says still running, the instance stays
\* and its bot is not killed; in the connection wait a failing status query
\* of the engine ends the wait with BWAPI process died, and one of the bot
\* with Bot process died
C38_FailingQuery ==
    /\ pc = "supervise" =>
          \A obs \in Observations : \A n \in DOMAIN instances :
              LET pass == SupervisePass(instances, Len(instances), obs, {})
                  exited == obs[instances[n].bwheadless] = "Some"
              IN  /\ exited <=> instances[n] \notin Range(pass.instances)
                  /\ instances[n].bot # 0 =>
                        (exited <=> BotProc(instances[n].bot) \in pass.killed)
                  /\ Bwapi(instances[n].bwheadless) \notin pass.killed
    /\ status.bw = "Err" => (pc = "error" /\ error = "BWAPI process died")
    /\ (status.bw = "None" /\ status.ch = "Err") =>
          (pc = "error" /\ error = "Bot process died")

\* a supervised instance whose engine has ended and whose bot still runs:
\* the status query of the engine can fail, and a pass in which it does keeps
\* the instance and kills nothing
C38_Witness ==
    /\ pc = "supervise"
    /\ \E n \in DOMAIN instances :
        /\ proc[Bwapi(instances[n].bwheadless)] = "exited"
        /\ instances[n].bot # 0
        /\ proc[BotProc(instances[n].bot)] = "running"
        /\ \E obs \in Observations :
            /\ obs[instances[n].bwheadless] = "Err"
            /\ LET pass == SupervisePass(instances, Len(instances), obs, {})
               IN  /\ instances[n] \in Range(pass.instances)
                   /\ BotProc(instances[n].bot) \notin pass.killed

\* C39: on windows a call of get_game_table that returns a table leaves the
\* reader with a handle, and a reader with a handle keeps it: every later
\* call opens nothing and returns a table, never None, also after the engine
\* that created the region has ended
C39_Monotonic ==
    [][ /\ (windows /\ last'.called /\ last'.out.table # Unavailable) => game_table'
        /\ (windows /\ game_table) =>
              /\ game_table'
              /\ last' # last =>
                    /\ last'.before
                    /\ ~last'.out.opened
                    /\ ~last'.out.panic
                    /\ last'.out.game_table
                    /\ last'.out.table # Unavailable ]_vars

\* a reader with a handle has called after the engine that created the
\* region had ended, and got the table the region still holds
C39_Witness ==
    /\ windows
    /\ Returned
    /\ last.before
    /\ last.engine = "exited"
    /\ proc[Bwapi(ReaderPid)] = "exited"
    /\ game_table
    /\ last.out.table # Unavailable
    /\ last.out.table = shmem
====
